---- MODULE Spec2Model ----
(***************************************************************************)
(* Repository evaluation engine: the cache/staleness coordinator           *)
(* (lib/repo-fetcher.ts, getOrFetchRepo / fetchAndSaveRepo / fetchRepoData) *)
(* over the D1 persistence gateway (lib/d1-data-loader.ts,                  *)
(* getCachedRepoWithStatus / saveRepoToD1, table repos).                    *)
(*                                                                         *)
(* Time is counted in hours; Date.getTime() is hours * MsPerHour.          *)
(* The table repos is the sequence of its rows in rowid order.              *)
(* env is the deployment's bindings: whether env.DB is bound and whether   *)
(* the runtime offers ctx.waitUntil.                                       *)
(* reqs and tasks are the bags of getOrFetchRepo calls and of background    *)
(* refreshes in flight; lastResponse, lastRefresh and lastWrite record the  *)
(* most recent answer to a caller, the most recent end of a background      *)
(* refresh and the most recent committed upsert, each with its ordinal.     *)
(* An optional value (CachedRepoData | null, a row or no row) is a          *)
(* sequence of length 0 or 1.                                               *)
(* calc is the most recent call of one of the pure functions (staleness     *)
(* test, summary of a record, scoring engine, release filters) with its     *)
(* arguments and its result; the coordinator leaves it alone.               *)
(***************************************************************************)
EXTENDS Integers, Sequences, FiniteSets, Bags, TLC

VARIABLES store, now, env, started, reqs, tasks,
          lastResponse, lastRefresh, lastWrite, calc

vars == <<store, now, env, started, reqs, tasks,
          lastResponse, lastRefresh, lastWrite, calc>>

\* the coordinator's variables, which a call of a pure function leaves alone
coordVars == <<store, now, env, started, reqs, tasks,
               lastResponse, lastRefresh, lastWrite>>

\* ------------------------------------------------------------------ bounds
MaxRequests == 2
MaxTicks == 2
TickHours == 12

\* ------------------------------------------------------- program constants
DATA_VERSION == 2
DEFAULT_CACHE_MAX_AGE_HOURS == 24 * 1
MsPerHour == 60 * 60 * 1000

StartNow == 2 * DEFAULT_CACHE_MAX_AGE_HOURS
EndNow == StartNow + MaxTicks * TickHours

\* ------------------------------------------------------------- identities
\* Spellings a caller may request.  Upstream (GitHub) resolves owner and
\* name case-insensitively and answers with its own spelling.
Identities ==
    { <<"acme", "lib">>, <<"Acme", "lib">>, <<"zed", "kit">>, <<"Zed", "kit">> }

ToLowerCase(s) ==
    CASE s = "Acme" -> "acme"
      [] s = "Zed" -> "zed"
      [] OTHER -> s

\* config/curated-repos.json
curatedRepos == << [owner |-> "acme", name |-> "lib"] >>

\* data.owner.login / data.name of the upstream answer
UpstreamIdentity(owner, name) ==
    [owner |-> ToLowerCase(owner), name |-> ToLowerCase(name)]

findCuratedRepo(owner, name) ==
    LET ownerLower == ToLowerCase(owner)
        nameLower == ToLowerCase(name)
        hits == SelectSeq(curatedRepos,
                    LAMBDA repo : ToLowerCase(repo.owner) = ownerLower
                                  /\ ToLowerCase(repo.name) = nameLower)
    IN  IF Len(hits) = 0 THEN << >> ELSE << Head(hits) >>

lookupOwner(owner, name) ==
    LET curatedMatch == findCuratedRepo(owner, name)
    IN  IF Len(curatedMatch) = 1 THEN curatedMatch[1].owner ELSE owner

lookupName(owner, name) ==
    LET curatedMatch == findCuratedRepo(owner, name)
    IN  IF Len(curatedMatch) = 1 THEN curatedMatch[1].name ELSE name

\* ------------------------------------------------------ upstream snapshots
\* What one run of the collectors and of calculateScores may yield: the
\* repository facts that reach the summary columns and the per-model
\* {overall, grade} pairs, in the order of LLM_CONFIGS.
Snapshots ==
    { [stars |-> 50000, language |-> "TypeScript", description |-> "ui",
       scores |-> << [llm |-> "gpt-5.2-codex", overall |-> 72, grade |-> "B", coverage |-> 60],
                     [llm |-> "claude-4.5-opus", overall |-> 90, grade |-> "A", coverage |-> 100] >>],
      [stars |-> 10, language |-> "Unknown", description |-> "",
       scores |-> << [llm |-> "gpt-5.2-codex", overall |-> 40, grade |-> "D", coverage |-> 50],
                     [llm |-> "claude-4.5-opus", overall |-> 40, grade |-> "D", coverage |-> 50] >>] }

\* ------------------------------------------------------------ pure helpers
\* variant: only the typeof check
isDataVersionNumberOnly(dataVersion) == dataVersion \in Int

isDataVersionCurrent(dataVersion) == dataVersion >= DATA_VERSION

\* variant: a record exactly maxAge old already counts as stale
isCacheStaleInclusive(fetchedAt, nowHours, maxAgeHours) ==
    (nowHours - fetchedAt) * MsPerHour >= maxAgeHours * 60 * 60 * 1000

\* variant of the comparison: age >= maxAge
isCacheStaleAtInclusive(fetchedTime, nowMs, maxAgeHours) ==
    (nowMs - fetchedTime) >= maxAgeHours * 60 * 60 * 1000

\* isCacheStale on epoch milliseconds: fetchedTime is
\* new Date(fetchedAt).getTime() and nowMs is Date.now()
isCacheStaleAt(fetchedTime, nowMs, maxAgeHours) ==
    LET maxAgeMs == maxAgeHours * 60 * 60 * 1000
    IN  (nowMs - fetchedTime) > maxAgeMs

\* isCacheStale for timestamps on whole hours
isCacheStale(fetchedAt, nowHours, maxAgeHours) ==
    isCacheStaleAt(fetchedAt * MsPerHour, nowHours * MsPerHour, maxAgeHours)

\* variant: the record is stamped with the previous schema version
BuildRecordPreviousVersion(owner, name, snap, nowHours) ==
    LET repo == UpstreamIdentity(owner, name)
    IN  [owner |-> repo.owner,
         name |-> repo.name,
         stars |-> snap.stars,
         language |-> snap.language,
         description |-> snap.description,
         scores |-> snap.scores,
         fetchedAt |-> nowHours,
         dataVersion |-> DATA_VERSION - 1]

\* the record fetchRepoData returns
BuildRecord(owner, name, snap, nowHours) ==
    LET repo == UpstreamIdentity(owner, name)
    IN  [owner |-> repo.owner,
         name |-> repo.name,
         stars |-> snap.stars,
         language |-> snap.language,
         description |-> snap.description,
         scores |-> snap.scores,
         fetchedAt |-> nowHours,
         dataVersion |-> DATA_VERSION]

\* variant: the comparison is >=, so the last entry wins a tie
BestOfLastSeenWins(scoreEntries, bestScore, bestGrade) ==
    LET reach == { i \in 1..Len(scoreEntries) :
                     /\ scoreEntries[i].overall >= bestScore
                     /\ \A j \in 1..Len(scoreEntries) :
                           scoreEntries[j].overall <= scoreEntries[i].overall }
    IN  IF reach = {}
        THEN [bestScore |-> bestScore, bestGrade |-> bestGrade]
        ELSE LET last == CHOOSE i \in reach : \A j \in reach : j <= i
             IN  [bestScore |-> scoreEntries[last].overall,
                  bestGrade |-> scoreEntries[last].grade]

\* the loop over Object.entries(data.scores) in saveRepoToD1
RECURSIVE BestOf(_, _, _)
BestOf(scoreEntries, bestScore, bestGrade) ==
    IF Len(scoreEntries) = 0
    THEN [bestScore |-> bestScore, bestGrade |-> bestGrade]
    ELSE LET llmScores == Head(scoreEntries)
             score == llmScores.overall
             grade == llmScores.grade
         IN  IF score > bestScore
             THEN BestOf(Tail(scoreEntries), score, grade)
             ELSE BestOf(Tail(scoreEntries), bestScore, bestGrade)

ScoresByLLM(scoreEntries) ==
    [i \in 1..Len(scoreEntries) |->
        [llm |-> scoreEntries[i].llm,
         overall |-> scoreEntries[i].overall,
         grade |-> scoreEntries[i].grade]]

\* the values saveRepoToD1 binds, written under the schema version ver
BindRow(data, ver) ==
    LET best == BestOf(data.scores, 0, "F")
    IN  [owner |-> data.owner,
         name |-> data.name,
         stars |-> data.stars,
         language |-> data.language,
         description |-> data.description,
         best_score |-> best.bestScore,
         best_grade |-> best.bestGrade,
         scores_by_llm |-> ScoresByLLM(data.scores),
         fetched_at |-> data.fetchedAt,
         data_version |-> ver,
         data |-> data]

\* SELECT ... FROM repos WHERE owner = ? AND name = ?  (.first())
SelectRow(st, owner, name) ==
    LET hits == SelectSeq(st, LAMBDA row : row.owner = owner /\ row.name = name)
    IN  IF Len(hits) = 0 THEN << >> ELSE << Head(hits) >>

\* variant: DO UPDATE SET leaves best_score out
UpsertKeepsBestScore(st, row) ==
    LET conflicts == { i \in 1..Len(st) :
                         st[i].owner = row.owner /\ st[i].name = row.name }
    IN  IF conflicts = {}
        THEN Append(st, row)
        ELSE [i \in 1..Len(st) |->
                IF i \in conflicts
                THEN [row EXCEPT !.best_score = st[i].best_score]
                ELSE st[i]]

\* variant: ON CONFLICT(owner, name) DO NOTHING
UpsertDoNothing(st, row) ==
    LET conflicts == { i \in 1..Len(st) :
                         st[i].owner = row.owner /\ st[i].name = row.name }
    IN  IF conflicts = {} THEN Append(st, row) ELSE st

\* variant: the conflict target also names fetched_at
UpsertKeyedByFetchedAt(st, row) ==
    LET conflicts == { i \in 1..Len(st) :
                         /\ st[i].owner = row.owner /\ st[i].name = row.name
                         /\ st[i].fetched_at = row.fetched_at }
    IN  IF conflicts = {}
        THEN Append(st, row)
        ELSE [i \in 1..Len(st) |-> IF i \in conflicts THEN row ELSE st[i]]

\* variant: a plain INSERT on a table without the primary key
UpsertPlainInsert(st, row) == Append(st, row)

\* INSERT INTO repos ... ON CONFLICT(owner, name) DO UPDATE SET ...
Upsert(st, row) ==
    LET conflicts == { i \in 1..Len(st) :
                         st[i].owner = row.owner /\ st[i].name = row.name }
    IN  IF conflicts = {}
        THEN Append(st, row)
        ELSE [i \in 1..Len(st) |-> IF i \in conflicts THEN row ELSE st[i]]

\* --------------------------------------------------------------- the state
NoRecord == << >>
NoCall == [op |-> "none"]

\* Rows a store may hold when the coordinator starts: written by an earlier
\* run of the same pipeline, possibly under the previous schema version.
InitRecord(id, snap, fetchedAt, ver) ==
    [BuildRecord(id[1], id[2], snap, fetchedAt) EXCEPT !.dataVersion = ver]

InitRows ==
    { BindRow(InitRecord(<<"acme", "lib">>, snap, StartNow - age, ver), ver) :
        snap \in Snapshots,
        age \in { 0, DEFAULT_CACHE_MAX_AGE_HOURS,
                  DEFAULT_CACHE_MAX_AGE_HOURS + TickHours },
        ver \in { DATA_VERSION - 1, DATA_VERSION } }

\* The deployment's bindings.  cacheMaxAgeHours is the cache max-age the
\* deployment asks for (<< >> when it asks for none); FetcherEnv declares only
\* DB and GITHUB_TOKEN, and no code reads any other binding.
Bindings(maxAges) ==
    [DB : BOOLEAN, waitUntil : BOOLEAN, cacheMaxAgeHours : maxAges]

Init ==
    /\ now = StartNow
    /\ store \in { << >> } \cup { << row >> : row \in InitRows }
    /\ env \in Bindings({ << >> })
    /\ started = 0
    /\ reqs = EmptyBag
    /\ tasks = EmptyBag
    /\ lastResponse = << >>
    /\ lastRefresh = << >>
    /\ lastWrite = << >>
    /\ calc = NoCall

Seq1(opt) == IF Len(opt) = 0 THEN 1 ELSE opt[1].seq + 1

\* the answer a caller of getOrFetchRepo gets
Respond(q, cache, outcome, result, scheduled, error) ==
    << [seq |-> Seq1(lastResponse), error |-> error,
        owner |-> q.owner, name |-> q.name,
        cache |-> cache, outcome |-> outcome, result |-> result,
        fetches |-> q.fetches, saves |-> q.saves,
        scheduled |-> scheduled] >>

\* ------------------------------------------------------------- the actions
\* a caller invokes getOrFetchRepo(owner, name, env, _, ctx)
NewRequest(owner, name) ==
    /\ started < MaxRequests
    /\ started' = started + 1
    /\ reqs' = reqs (+) SetToBag({
          [owner |-> owner, name |-> name, pc |-> "lookup", cache |-> "none",
           rec |-> NoRecord, fetches |-> 0, saves |-> 0] })
    /\ UNCHANGED <<calc, store, now, env, tasks, lastResponse, lastRefresh, lastWrite>>

\* getOrFetchRepo up to its first return or to the start of the miss path:
\* the lookup through getCachedRepoWithStatus and the branch on its result
LookupThrows(q, error) ==
    \* env.DB undefined, or the D1 query rejects: the await at the lookup
    \* is outside the try block, so the rejection reaches the caller
    /\ reqs' = reqs (-) SetToBag({q})
    /\ lastResponse' = Respond(q, "none", "threw", NoRecord, 0, error)
    /\ UNCHANGED <<calc, store, now, env, started, tasks, lastRefresh, lastWrite>>

MissStart(q, why) ==
    \* cacheResult.data is null: fetchAndSaveRepo is called and awaited
    /\ reqs' = (reqs (-) SetToBag({q})) (+) SetToBag({
          [q EXCEPT !.pc = "fetching", !.cache = why, !.fetches = @ + 1] })
    /\ UNCHANGED <<calc, store, now, env, started, tasks,
                   lastResponse, lastRefresh, lastWrite>>

FreshHit(q, data) ==
    /\ reqs' = reqs (-) SetToBag({q})
    /\ lastResponse' = Respond(q, "fresh", "returned", << data >>, 0, "")
    /\ UNCHANGED <<calc, store, now, env, started, tasks, lastRefresh, lastWrite>>

\* variant: the refresh is awaited before the call returns
StaleHitAwaitsRefresh(q, data) ==
    /\ reqs' = (reqs (-) SetToBag({q})) (+) SetToBag({
          [q EXCEPT !.pc = "fetching", !.cache = "stale", !.fetches = @ + 1] })
    /\ UNCHANGED <<calc, store, now, env, started, tasks,
                   lastResponse, lastRefresh, lastWrite>>

\* variant: without ctx.waitUntil the refresh is awaited before returning
StaleHitSynchronousFallback(q, data) ==
    IF env.waitUntil
    THEN /\ tasks' = tasks (+) SetToBag({
               [owner |-> lookupOwner(q.owner, q.name),
                name |-> lookupName(q.owner, q.name),
                held |-> TRUE,
                staleAt |-> data.fetchedAt,
                pc |-> "fetching", rec |-> NoRecord, raced |-> ""] })
         /\ reqs' = reqs (-) SetToBag({q})
         /\ lastResponse' = Respond(q, "stale", "returned", << data >>, 1, "")
         /\ UNCHANGED <<calc, store, now, env, started, lastRefresh, lastWrite>>
    ELSE StaleHitAwaitsRefresh(q, data)

StaleHit(q, data) ==
    \* fetchAndSaveRepo is started and not awaited; the promise is handed
    \* to ctx.waitUntil when there is one
    /\ tasks' = tasks (+) SetToBag({
          [owner |-> lookupOwner(q.owner, q.name),
           name |-> lookupName(q.owner, q.name),
           held |-> env.waitUntil,
           staleAt |-> data.fetchedAt,
           pc |-> "fetching", rec |-> NoRecord, raced |-> ""] })
    /\ reqs' = reqs (-) SetToBag({q})
    /\ lastResponse' = Respond(q, "stale", "returned", << data >>, 1, "")
    /\ UNCHANGED <<calc, store, now, env, started, lastRefresh, lastWrite>>

Lookup(q) ==
    /\ BagIn(q, reqs)
    /\ q.pc = "lookup"
    /\ IF ~env.DB
       THEN LookupThrows(q, "D1 database not available")
       ELSE LET row == SelectRow(store, lookupOwner(q.owner, q.name),
                                        lookupName(q.owner, q.name))
            IN  IF Len(row) = 0
                THEN MissStart(q, "absent")
                ELSE IF ~isDataVersionCurrent(row[1].data_version)
                THEN MissStart(q, "old")
                ELSE IF isCacheStale(row[1].fetched_at, now,
                                     DEFAULT_CACHE_MAX_AGE_HOURS)
                THEN StaleHit(q, row[1].data)
                ELSE FreshHit(q, row[1].data)

LookupRejects(q) ==
    /\ BagIn(q, reqs)
    /\ q.pc = "lookup"
    /\ env.DB
    /\ LookupThrows(q, "D1 query failed")

\* the committed upsert of saveRepoToD1(data)
Commit(data, by, raced) ==
    /\ store' = Upsert(store, BindRow(data, DATA_VERSION))
    /\ lastWrite' = << [seq |-> Seq1(lastWrite), rec |-> data,
                        by |-> by, raced |-> raced] >>

\* a refresh in flight for the key of data is marked with the kind of writer
\* ("miss" or "refresh") that committed that key while it was running
Overtaken(inFlight, data, by) ==
    LET hit(t) == UpstreamIdentity(t.owner, t.name)
                    = [owner |-> data.owner, name |-> data.name]
    IN  BagOfAll(LAMBDA t : IF hit(t) THEN [t EXCEPT !.raced = by] ELSE t,
                 inFlight)

\* ---- miss path: await fetchAndSaveRepo inside try/catch
MissFetchOk(q, snap) ==
    /\ BagIn(q, reqs)
    /\ q.pc = "fetching"
    /\ reqs' = (reqs (-) SetToBag({q})) (+) SetToBag({
          [q EXCEPT !.pc = "saving",
                    !.rec = << BuildRecord(lookupOwner(q.owner, q.name),
                                           lookupName(q.owner, q.name),
                                           snap, now) >>] })
    /\ UNCHANGED <<calc, store, now, env, started, tasks,
                   lastResponse, lastRefresh, lastWrite>>

\* variant: the rejection of fetchRepoInfo is not caught
MissFetchFailThrows(q) ==
    /\ BagIn(q, reqs)
    /\ q.pc = "fetching"
    /\ reqs' = reqs (-) SetToBag({q})
    /\ lastResponse' = Respond(q, q.cache, "threw", NoRecord, 0,
                               "Failed to fetch repo")
    /\ UNCHANGED <<calc, store, now, env, started, tasks, lastRefresh, lastWrite>>

MissFetchFail(q) ==
    \* fetchRepoInfo throws; the catch logs and returns null
    /\ BagIn(q, reqs)
    /\ q.pc = "fetching"
    /\ reqs' = reqs (-) SetToBag({q})
    /\ lastResponse' = Respond(q, q.cache, "returned", NoRecord, 0,
                               "logged: Failed to fetch repo")
    /\ UNCHANGED <<calc, store, now, env, started, tasks, lastRefresh, lastWrite>>

MissSaveOk(q) ==
    /\ BagIn(q, reqs)
    /\ q.pc = "saving"
    /\ Commit(q.rec[1], "miss", "")
    /\ tasks' = Overtaken(tasks, q.rec[1], "miss")
    /\ reqs' = reqs (-) SetToBag({q})
    /\ lastResponse' = Respond([q EXCEPT !.saves = @ + 1], q.cache,
                               "returned", q.rec, 0, "")
    /\ UNCHANGED <<calc, now, env, started, lastRefresh>>

MissSaveFail(q) ==
    \* the statement's run() rejects; the same catch logs and returns null
    /\ BagIn(q, reqs)
    /\ q.pc = "saving"
    /\ reqs' = reqs (-) SetToBag({q})
    /\ lastResponse' = Respond(q, q.cache, "returned", NoRecord, 0,
                               "logged: D1 run failed")
    /\ UNCHANGED <<calc, store, now, env, started, tasks, lastRefresh, lastWrite>>

\* ---- background refresh: fetchAndSaveRepo(...).then(log).catch(log)
Ended(t, status) ==
    << [seq |-> Seq1(lastRefresh), status |-> status,
        owner |-> t.owner, name |-> t.name, rec |-> t.rec,
        staleAt |-> t.staleAt] >>

\* variant: the refreshed record keeps the timestamp of the record it renews
RefreshFetchOkKeepsTimestamp(t, snap) ==
    /\ BagIn(t, tasks)
    /\ t.pc = "fetching"
    /\ tasks' = (tasks (-) SetToBag({t})) (+) SetToBag({
          [t EXCEPT !.pc = "saving",
                    !.rec = << BuildRecord(t.owner, t.name, snap, t.staleAt) >>] })
    /\ UNCHANGED <<calc, store, now, env, started, reqs,
                   lastResponse, lastRefresh, lastWrite>>

RefreshFetchOk(t, snap) ==
    /\ BagIn(t, tasks)
    /\ t.pc = "fetching"
    /\ tasks' = (tasks (-) SetToBag({t})) (+) SetToBag({
          [t EXCEPT !.pc = "saving",
                    !.rec = << BuildRecord(t.owner, t.name, snap, now) >>] })
    /\ UNCHANGED <<calc, store, now, env, started, reqs,
                   lastResponse, lastRefresh, lastWrite>>

\* variant: a failed refresh evicts the row it could not renew
RefreshFetchFailEvicts(t) ==
    /\ BagIn(t, tasks)
    /\ t.pc = "fetching"
    /\ tasks' = tasks (-) SetToBag({t})
    /\ lastRefresh' = Ended(t, "failed")
    /\ store' = SelectSeq(store,
                    LAMBDA row : ~(row.owner = t.owner /\ row.name = t.name))
    /\ UNCHANGED <<calc, now, env, started, reqs, lastResponse, lastWrite>>

RefreshFetchFail(t) ==
    /\ BagIn(t, tasks)
    /\ t.pc = "fetching"
    /\ tasks' = tasks (-) SetToBag({t})
    /\ lastRefresh' = Ended(t, "failed")
    /\ UNCHANGED <<calc, store, now, env, started, reqs, lastResponse, lastWrite>>

RefreshSaveOk(t) ==
    /\ BagIn(t, tasks)
    /\ t.pc = "saving"
    /\ Commit(t.rec[1], "refresh", t.raced)
    /\ tasks' = Overtaken(tasks (-) SetToBag({t}), t.rec[1], "refresh")
    /\ lastRefresh' = Ended(t, "completed")
    /\ UNCHANGED <<calc, now, env, started, reqs, lastResponse>>

RefreshSaveFail(t) ==
    /\ BagIn(t, tasks)
    /\ t.pc = "saving"
    /\ tasks' = tasks (-) SetToBag({t})
    /\ lastRefresh' = Ended(t, "failed")
    /\ UNCHANGED <<calc, store, now, env, started, reqs, lastResponse, lastWrite>>

RefreshDropped(t) ==
    \* fire-and-forget: a promise not handed to waitUntil may be cut off
    \* once the response has been sent
    /\ BagIn(t, tasks)
    /\ ~t.held
    /\ tasks' = tasks (-) SetToBag({t})
    /\ lastRefresh' = Ended(t, "dropped")
    /\ UNCHANGED <<calc, store, now, env, started, reqs, lastResponse, lastWrite>>

Tick ==
    /\ now + TickHours <= EndNow
    /\ now' = now + TickHours
    /\ UNCHANGED <<calc, store, env, started, reqs, tasks,
                   lastResponse, lastRefresh, lastWrite>>

Next ==
    \/ \E id \in Identities : NewRequest(id[1], id[2])
    \/ \E q \in BagToSet(reqs) : Lookup(q)
    \/ \E q \in BagToSet(reqs) : LookupRejects(q)
    \/ \E q \in BagToSet(reqs), snap \in Snapshots : MissFetchOk(q, snap)
    \/ \E q \in BagToSet(reqs) : MissFetchFail(q)
    \/ \E q \in BagToSet(reqs) : MissSaveOk(q)
    \/ \E q \in BagToSet(reqs) : MissSaveFail(q)
    \/ \E t \in BagToSet(tasks), snap \in Snapshots : RefreshFetchOk(t, snap)
    \/ \E t \in BagToSet(tasks) : RefreshFetchFail(t)
    \/ \E t \in BagToSet(tasks) : RefreshSaveOk(t)
    \/ \E t \in BagToSet(tasks) : RefreshSaveFail(t)
    \/ \E t \in BagToSet(tasks) : RefreshDropped(t)
    \/ Tick

Spec == Init /\ [][Next]_vars

\* =================================================================== claims
\* what a call q at its lookup finds in the table
RowSeen(q) ==
    SelectRow(store, lookupOwner(q.owner, q.name), lookupName(q.owner, q.name))

\* the call q leaves its lookup in this step
LeavesLookup(q) ==
    /\ BagIn(q, reqs)
    /\ q.pc = "lookup"
    /\ CopiesIn(q, reqs') = CopiesIn(q, reqs) - 1

Answered == lastResponse' # lastResponse

AnsweredWithoutThrow == Answered /\ lastResponse'[1].outcome = "returned"

RefreshEnded(status) ==
    lastRefresh' # lastRefresh /\ lastRefresh'[1].status = status

\* C1: on a stale hit (a row of current schema version older than maxAge)
\* getOrFetchRepo answers with the stored record without running the
\* pipeline itself, leaves the store alone and puts exactly one refresh in
\* flight, still fetching; a refresh that completes has written its record
\* through the upsert.
C1_StaleHitServesAndSchedules ==
    [][ /\ \A q \in BagToSet(reqs) :
              LET row == RowSeen(q)
              IN  ( /\ LeavesLookup(q)
                    /\ Len(row) = 1
                    /\ row[1].data_version >= DATA_VERSION
                    /\ now - row[1].fetched_at > DEFAULT_CACHE_MAX_AGE_HOURS
                    /\ ~(Answered /\ lastResponse'[1].outcome = "threw") )
                  => /\ AnsweredWithoutThrow
                     /\ lastResponse'[1].result = << row[1].data >>
                     /\ lastResponse'[1].fetches = 0
                     /\ reqs' = reqs (-) SetToBag({q})
                     /\ store' = store
                     /\ BagCardinality(tasks') = BagCardinality(tasks) + 1
                     /\ \E t \in BagToSet(tasks') :
                           /\ tasks' = tasks (+) SetToBag({t})
                           /\ t.pc = "fetching"
                           /\ t.owner = row[1].owner /\ t.name = row[1].name
        /\ RefreshEnded("completed")
              => LET rec == lastRefresh'[1].rec[1]
                 IN  SelectRow(store', rec.owner, rec.name)
                        = << BindRow(rec, DATA_VERSION) >>
      ]_vars

C1_Witness ==
    /\ Len(lastResponse) = 1 /\ lastResponse[1].cache = "stale"
    /\ Len(lastRefresh) = 1 /\ lastRefresh[1].status = "completed"
    /\ lastRefresh[1].rec[1].fetchedAt > lastResponse[1].result[1].fetchedAt
    /\ SelectRow(store, lastRefresh[1].owner, lastRefresh[1].name)
          = << BindRow(lastRefresh[1].rec[1], DATA_VERSION) >>

\* C2: a background refresh that fails (upstream or upsert) changes neither
\* the store nor any caller's call or answer, and the store changes only
\* when an upsert commits, so the stale row stays until a refresh succeeds.
C2_RefreshFailureSwallowed ==
    [][ /\ RefreshEnded("failed")
              => /\ store' = store
                 /\ reqs' = reqs
                 /\ lastResponse' = lastResponse
                 /\ lastWrite' = lastWrite
        /\ store' # store => lastWrite' # lastWrite
      ]_vars

C2_Witness ==
    /\ Len(lastRefresh) = 1 /\ lastRefresh[1].status = "failed"
    /\ Len(lastRefresh[1].rec) = 1
    /\ Len(lastResponse) = 1 /\ lastResponse[1].cache = "stale"
    /\ SelectRow(store, lastRefresh[1].owner, lastRefresh[1].name)
          = << BindRow(lastResponse[1].result[1], DATA_VERSION) >>

\* C3: on a fresh hit (a row of current schema version with
\* now - fetchedAt <= maxAge) getOrFetchRepo answers with the stored record
\* and nothing else changes: no pipeline run, no refresh scheduled, no write.
C3_FreshHitNoSideEffects ==
    [][ \A q \in BagToSet(reqs) :
           LET row == RowSeen(q)
           IN  ( /\ LeavesLookup(q)
                 /\ Len(row) = 1
                 /\ row[1].data_version >= DATA_VERSION
                 /\ now - row[1].fetched_at <= DEFAULT_CACHE_MAX_AGE_HOURS
                 /\ ~(Answered /\ lastResponse'[1].outcome = "threw") )
               => /\ AnsweredWithoutThrow
                  /\ lastResponse'[1].result = << row[1].data >>
                  /\ lastResponse'[1].fetches = 0
                  /\ lastResponse'[1].scheduled = 0
                  /\ reqs' = reqs (-) SetToBag({q})
                  /\ tasks' = tasks
                  /\ store' = store
                  /\ lastWrite' = lastWrite
                  /\ lastRefresh' = lastRefresh
      ]_vars

\* a fresh hit on a record whose age is exactly maxAge
C3_Witness ==
    /\ Len(lastResponse) = 1 /\ lastResponse[1].cache = "fresh"
    /\ now - lastResponse[1].result[1].fetchedAt = DEFAULT_CACHE_MAX_AGE_HOURS
    /\ tasks = EmptyBag /\ lastWrite = << >>

\* C4: a row whose data_version is below DATA_VERSION is never handed to a
\* caller: its lookup starts the synchronous pipeline (one fetch, no answer
\* yet) and the only error a lookup can raise is that of the query itself;
\* every record a caller receives carries a current dataVersion.
C4_OldSchemaIsAMiss ==
    [][ /\ \A q \in BagToSet(reqs) :
              LET row == RowSeen(q)
              IN  ( /\ LeavesLookup(q)
                    /\ env.DB
                    /\ Len(row) = 1
                    /\ row[1].data_version < DATA_VERSION )
                  => \/ /\ Answered
                        /\ lastResponse'[1].outcome = "threw"
                        /\ lastResponse'[1].error = "D1 query failed"
                     \/ /\ ~Answered
                        /\ tasks' = tasks
                        /\ store' = store
                        /\ reqs' = (reqs (-) SetToBag({q})) (+) SetToBag({
                              [q EXCEPT !.pc = "fetching", !.cache = "old",
                                        !.fetches = 1] })
        /\ (Answered /\ Len(lastResponse'[1].result) = 1)
              => lastResponse'[1].result[1].dataVersion >= DATA_VERSION
      ]_vars

\* a caller whose lookup met an old-schema row got the refetched record
C4_Witness ==
    /\ Len(lastResponse) = 1 /\ lastResponse[1].cache = "old"
    /\ Len(lastResponse[1].result) = 1
    /\ lastResponse[1].result[1].dataVersion = DATA_VERSION

\* C5: a call that finds no row runs the pipeline exactly once and
\* synchronously (one fetch, no background refresh); when it returns a
\* record, that record was upserted exactly once, is the row now stored
\* under its key and has dataVersion = DATA_VERSION.
C5_MissFetchesOnce ==
    [][ /\ \A q \in BagToSet(reqs) :
              ( /\ LeavesLookup(q)
                /\ Len(RowSeen(q)) = 0
                /\ ~Answered )
              => /\ tasks' = tasks
                 /\ reqs' = (reqs (-) SetToBag({q})) (+) SetToBag({
                       [q EXCEPT !.pc = "fetching", !.cache = "absent",
                                 !.fetches = 1] })
        /\ (AnsweredWithoutThrow /\ lastResponse'[1].cache = "absent")
              => /\ lastResponse'[1].fetches = 1
                 /\ lastResponse'[1].scheduled = 0
                 /\ Len(lastResponse'[1].result) = 1
                       => LET rec == lastResponse'[1].result[1]
                          IN  /\ lastResponse'[1].saves = 1
                              /\ rec.dataVersion = DATA_VERSION
                              /\ SelectRow(store', rec.owner, rec.name)
                                    = << BindRow(rec, DATA_VERSION) >>
                 /\ Len(lastResponse'[1].result) = 0
                       => lastResponse'[1].saves = 0 /\ store' = store
      ]_vars

C5_Witness ==
    /\ Len(lastResponse) = 1 /\ lastResponse[1].cache = "absent"
    /\ lastResponse[1].fetches = 1 /\ lastResponse[1].saves = 1
    /\ Len(lastResponse[1].result) = 1
    /\ lastResponse[1].result[1].dataVersion = DATA_VERSION
    /\ Len(store) = 1 /\ store[1].data = lastResponse[1].result[1]

\* the largest of a set of naturals
MaxOf(S) == CHOOSE m \in S : \A n \in S : n <= m

\* the summary columns of row are those its own data blob yields
SummaryMatches(row) ==
    LET data == row.data
        overalls == { data.scores[i].overall : i \in 1..Len(data.scores) }
        top == MaxOf(overalls \cup {0})
        first == IF top = 0 THEN 0
                 ELSE CHOOSE i \in 1..Len(data.scores) :
                         /\ data.scores[i].overall = top
                         /\ \A j \in 1..(i - 1) : data.scores[j].overall < top
    IN  /\ row.owner = data.owner /\ row.name = data.name
        /\ row.stars = data.stars
        /\ row.description = data.description
        /\ row.language = data.language
        /\ row.best_score = top
        /\ row.best_grade = IF top = 0 THEN "F" ELSE data.scores[first].grade
        /\ Len(row.scores_by_llm) = Len(data.scores)
        /\ \A i \in 1..Len(data.scores) :
              /\ row.scores_by_llm[i].llm = data.scores[i].llm
              /\ row.scores_by_llm[i].overall = data.scores[i].overall
              /\ row.scores_by_llm[i].grade = data.scores[i].grade

\* C6: in every state of the table, whatever calls and refreshes are in
\* flight, the summary columns of each row (best score and grade, per-model
\* score map, stars, description, language) are those derived from the full
\* record stored in the same row.
C6_SummaryMatchesRecord ==
    \A i \in 1..Len(store) : SummaryMatches(store[i])

\* a refresh has overwritten an existing row with a record of another best
\* score while another refresh of the key is still in flight
C6_Witness ==
    /\ Len(lastWrite) = 1 /\ lastWrite[1].by = "refresh"
    /\ Len(lastResponse) = 1 /\ lastResponse[1].cache = "stale"
    /\ \E i \in 1..Len(store) :
          /\ store[i].data = lastWrite[1].rec
          /\ store[i].best_score
                # BestOf(lastResponse[1].result[1].scores, 0, "F").bestScore
    /\ \E t \in BagToSet(tasks) : t.raced = "refresh"

\* C7: the row stored for a key is the record of the upsert that committed
\* last for it, with the summary of that record, also when that upsert
\* belongs to a refresh that raced with another one; a row already present
\* never keeps a pending upsert from committing.
C7_LastWriteWins ==
    /\ Len(lastWrite) = 1
          => SelectSeq(store, LAMBDA row : row.owner = lastWrite[1].rec.owner
                                           /\ row.name = lastWrite[1].rec.name)
                = << BindRow(lastWrite[1].rec, DATA_VERSION) >>
    /\ \A t \in BagToSet(tasks) : t.pc = "saving" => ENABLED RefreshSaveOk(t)

\* two refreshes of one key ran concurrently and both committed; the row
\* is the record of the second
C7_Witness ==
    /\ Len(lastWrite) = 1
    /\ lastWrite[1].by = "refresh" /\ lastWrite[1].raced = "refresh"
    /\ lastWrite[1].seq = 2
    /\ Len(store) = 1 /\ store[1].data = lastWrite[1].rec
    /\ Len(lastRefresh) = 1 /\ lastRefresh[1].seq = 2
    /\ lastRefresh[1].status = "completed"

\* C8: the table never holds two rows with the same (owner, name).
C8_OneRowPerKey ==
    \A i, j \in 1..Len(store) :
        (store[i].owner = store[j].owner /\ store[i].name = store[j].name)
            => i = j

\* two upserts have committed on one key, the second by a refresh that was
\* in flight when the first committed
C8_Witness ==
    /\ Len(lastWrite) = 1 /\ lastWrite[1].seq >= 2
    /\ Len(store) = 1
    /\ store[1].data = lastWrite[1].rec
    /\ lastWrite[1].raced # ""

\* the records whose upsert is pending
PendingRecords ==
    { q.rec[1] : q \in { x \in BagToSet(reqs) : x.pc = "saving" } }
        \cup { t.rec[1] : t \in { x \in BagToSet(tasks) : x.pc = "saving" } }

\* C9: upserting a record twice leaves the table as upserting it once does:
\* the same rows, one row for the record's key, and that row's summary is
\* the record's.
C9_UpsertIdempotent ==
    \A rec \in PendingRecords :
        LET row == BindRow(rec, DATA_VERSION)
            once == Upsert(store, row)
            twice == Upsert(once, row)
            keyed(st) == SelectSeq(st, LAMBDA x : x.owner = rec.owner
                                                  /\ x.name = rec.name)
        IN  /\ twice = once
            /\ keyed(twice) = << row >>
            /\ SummaryMatches(keyed(twice)[1])

\* a record already stored by one refresh is about to be upserted again by
\* another refresh that built the same record
C9_Witness ==
    \E t \in BagToSet(tasks) :
        /\ t.pc = "saving"
        /\ Len(lastWrite) = 1 /\ lastWrite[1].rec = t.rec[1]
        /\ SelectRow(store, t.rec[1].owner, t.rec[1].name)
              = << BindRow(t.rec[1], DATA_VERSION) >>

\* C10 (as claimed): when the upsert of a miss-path call does not commit,
\* the call ends by throwing to its caller.
C10_MissSaveFailureThrows ==
    [][ \A q \in BagToSet(reqs) :
           ( /\ q.pc = "saving"
             /\ CopiesIn(q, reqs') = CopiesIn(q, reqs) - 1
             /\ lastWrite' = lastWrite )
           => Answered /\ lastResponse'[1].outcome = "threw"
      ]_vars

\* C11: when the upstream fetch of a miss-path call fails, the call returns
\* null (it does not throw), nothing is written and no row appears for the
\* key it looked up.
C11_MissFetchFailureReturnsNull ==
    [][ \A q \in BagToSet(reqs) :
           ( /\ BagIn(q, reqs)
             /\ q.pc = "fetching"
             /\ CopiesIn(q, reqs') = CopiesIn(q, reqs) - 1
             /\ Answered )
           => /\ lastResponse'[1].outcome = "returned"
              /\ lastResponse'[1].result = NoRecord
              /\ lastResponse'[1].saves = 0
              /\ store' = store
              /\ lastWrite' = lastWrite
              /\ tasks' = tasks
      ]_vars

\* a first request for a repository ended with null after its one fetch
\* failed, and the table is still empty
C11_Witness ==
    /\ Len(lastResponse) = 1
    /\ lastResponse[1].cache = "absent"
    /\ lastResponse[1].outcome = "returned"
    /\ lastResponse[1].result = NoRecord
    /\ lastResponse[1].error = "logged: Failed to fetch repo"
    /\ lastResponse[1].fetches = 1
    /\ store = << >> /\ lastWrite = << >>

\* a stale hit is answered in this step
StaleAnswered == Answered /\ lastResponse'[1].cache = "stale"

\* C13 (as claimed): without ctx.waitUntil, no refresh is still in flight
\* when the stale hit is answered.
C13_NoWaitUntilRefreshIsSynchronous ==
    [][ (StaleAnswered /\ ~env.waitUntil)
           => \A t \in BagToSet(tasks') : CopiesIn(t, tasks') <= CopiesIn(t, tasks)
      ]_vars

\* C13 (amended): without ctx.waitUntil the refresh is fire-and-forget: the
\* stale hit is answered at once, before any pipeline run of the call, and
\* its one refresh is then in flight, still fetching and held by nothing.
C13_NoWaitUntilRefreshIsFireAndForget ==
    [][ /\ (StaleAnswered /\ ~env.waitUntil)
           => /\ lastResponse'[1].fetches = 0
              /\ lastResponse'[1].scheduled = 1
              /\ \E t \in BagToSet(tasks') :
                    /\ tasks' = tasks (+) SetToBag({t})
                    /\ t.pc = "fetching" /\ ~t.held
        /\ \A q \in BagToSet(reqs) :
              LET row == RowSeen(q)
              IN  ( /\ LeavesLookup(q)
                    /\ ~env.waitUntil /\ env.DB
                    /\ Len(row) = 1
                    /\ row[1].data_version >= DATA_VERSION
                    /\ now - row[1].fetched_at > DEFAULT_CACHE_MAX_AGE_HOURS
                    /\ ~(Answered /\ lastResponse'[1].outcome = "threw") )
                  => StaleAnswered
      ]_vars

\* the stale record has been returned while the refresh, never awaited nor
\* handed to waitUntil, is still fetching
C13_Witness ==
    /\ ~env.waitUntil
    /\ Len(lastResponse) = 1 /\ lastResponse[1].cache = "stale"
    /\ \E t \in BagToSet(tasks) :
          /\ t.pc = "fetching" /\ ~t.held
          /\ t.staleAt = lastResponse[1].result[1].fetchedAt

MaxSkewSeconds == 6
MsPerSecond == 1000

MaxAgeChoices == { 1, DEFAULT_CACHE_MAX_AGE_HOURS, 2 * DEFAULT_CACHE_MAX_AGE_HOURS }
NowChoices == { (StartNow + h) * MsPerHour + ms : h \in {0, TickHours}, ms \in {0, 1} }
SkewChoices ==
    { k * MsPerSecond : k \in (0 - MaxSkewSeconds)..MaxSkewSeconds } \cup { 0 - 1, 1 }

\* the coordinator at rest, for the specifications of the pure functions
CoordIdle ==
    /\ now = StartNow
    /\ store = << >>
    /\ env = [DB |-> TRUE, waitUntil |-> TRUE, cacheMaxAgeHours |-> << >>]
    /\ started = 0
    /\ reqs = EmptyBag
    /\ tasks = EmptyBag
    /\ lastResponse = << >>
    /\ lastRefresh = << >>
    /\ lastWrite = << >>

InitStale ==
    /\ CoordIdle
    /\ calc = NoCall

\* isCacheStale(fetchedAt, maxAgeHours) at the instant nowMs, for a record
\* fetched skew milliseconds after now - maxAge
CallIsCacheStale(nowMs, maxAgeHours, skew) ==
    LET fetchedTime == nowMs - maxAgeHours * MsPerHour + skew
    IN  /\ calc' = [op |-> "isCacheStale", fetchedTime |-> fetchedTime,
                    now |-> nowMs, maxAgeHours |-> maxAgeHours,
                    isStale |-> isCacheStaleAt(fetchedTime, nowMs, maxAgeHours)]
        /\ UNCHANGED coordVars

NextStale ==
    \E nowMs \in NowChoices, maxAgeHours \in MaxAgeChoices, skew \in SkewChoices :
        CallIsCacheStale(nowMs, maxAgeHours, skew)

SpecStale == InitStale /\ [][NextStale]_vars

\* C12: a record is classified stale exactly when now - fetchedAt > maxAge:
\* one second older than maxAge is stale, one second younger is fresh, and
\* an age of exactly maxAge is fresh.
C12_StaleExactlyWhenOlderThanMaxAge ==
    calc.op = "isCacheStale" =>
        LET age == calc.now - calc.fetchedTime
            maxAge == calc.maxAgeHours * MsPerHour
        IN  /\ calc.isStale <=> (age > maxAge)
            /\ (age = maxAge + MsPerSecond) => calc.isStale
            /\ (age = maxAge - MsPerSecond) => ~calc.isStale
            /\ (age = maxAge) => ~calc.isStale

\* the default maxAge, a record exactly 24h old, classified fresh
C12_Witness ==
    /\ calc.op = "isCacheStale"
    /\ calc.maxAgeHours = DEFAULT_CACHE_MAX_AGE_HOURS
    /\ calc.now - calc.fetchedTime = DEFAULT_CACHE_MAX_AGE_HOURS * MsPerHour
    /\ ~calc.isStale

\* ======================================================== the scoring engine
\* A score before rounding is a multiple of 1/Scale, held as the integer
\* score * Scale: the dimension scores are integers and the weights are
\* multiples of 0.05.
Scale == 100

\* Math.round(x / Scale): the nearest integer, a half rounding up
MathRound(x) == (2 * x + Scale) \div (2 * Scale)

\* getGrade on a score held in units of 1/Scale
getGrade(score) ==
    IF score >= 85 * Scale THEN "A"
    ELSE IF score >= 70 * Scale THEN "B"
    ELSE IF score >= 55 * Scale THEN "C"
    ELSE IF score >= 40 * Scale THEN "D"
    ELSE "F"

\* the {overall, grade} pair calculateScoreForLLM returns for the weighted
\* sum overall
ScoredPair(overall) ==
    [overall |-> MathRound(overall), grade |-> getGrade(overall)]

\* ================================================= the summary of a record
\* saveRepoToD1's summary of a record whose scores calculateScores produced.
MaxModels == 3

\* the ids of LLM_CONFIGS, in its order
LLM_IDS == << "claude-4.5-opus", "claude-4.5-sonnet", "gpt-5.2-codex", "gemini-3-pro" >>

\* weighted sums (in units of 1/Scale) for the models
OverallChoices == { 0, 49, 3950, 4000, 8450, 8475, 8500, 10000 }

ScoresOf(overalls) ==
    [i \in 1..Len(overalls) |->
        [llm |-> LLM_IDS[i],
         overall |-> ScoredPair(overalls[i]).overall,
         grade |-> ScoredPair(overalls[i]).grade]]

InitSummary == InitStale

\* saveRepoToD1(data) binds its row for a record with these scores
CallSaveSummary(overalls) ==
    LET snap == CHOOSE sn \in Snapshots : sn.stars = 10
        data == [BuildRecord("acme", "lib", snap, StartNow)
                    EXCEPT !.scores = ScoresOf(overalls)]
    IN  /\ calc' = [op |-> "saveRepoToD1", row |-> BindRow(data, DATA_VERSION)]
        /\ UNCHANGED coordVars

NextSummary ==
    \E n \in 1..MaxModels : \E overalls \in [1..n -> OverallChoices] :
        CallSaveSummary(overalls)

SpecSummary == InitSummary /\ [][NextSummary]_vars

\* C15: for a record with at least one model score, best_score is the maximum
\* of scores[*].overall and best_grade is the grade of the first entry that
\* has that maximum.
C15_BestIsFirstMaximum ==
    (calc.op = "saveRepoToD1" /\ Len(calc.row.data.scores) >= 1) =>
        LET scores == calc.row.data.scores
            top == MaxOf({ scores[i].overall : i \in 1..Len(scores) })
            first == CHOOSE i \in 1..Len(scores) :
                        /\ scores[i].overall = top
                        /\ \A j \in 1..(i - 1) : scores[j].overall # top
        IN  /\ calc.row.best_score = top
            /\ calc.row.best_grade = scores[first].grade

\* two entries tie on the maximum with different grades and a lower entry
\* comes before them: the summary carries the grade of the earlier of the two
C15_Witness ==
    /\ calc.op = "saveRepoToD1"
    /\ Len(calc.row.data.scores) = 3
    /\ calc.row.data.scores[1].overall < calc.row.data.scores[2].overall
    /\ calc.row.data.scores[2].overall = calc.row.data.scores[3].overall
    /\ calc.row.data.scores[2].grade # calc.row.data.scores[3].grade
    /\ calc.row.best_score = calc.row.data.scores[2].overall
    /\ calc.row.best_grade = calc.row.data.scores[2].grade

\* ======================================================= the release filters
\* A tag name is the sequence of its characters.
MaxTagLen == 5

Digits == { "0", "1", "2", "3", "4", "5", "6", "7", "8", "9" }

DigitValue(c) ==
    CASE c = "0" -> 0 [] c = "1" -> 1 [] c = "2" -> 2 [] c = "3" -> 3
      [] c = "4" -> 4 [] c = "5" -> 5 [] c = "6" -> 6 [] c = "7" -> 7
      [] c = "8" -> 8 [] c = "9" -> 9

\* parseInt(digits, 10) of a non-empty run of digits
RECURSIVE parseInt(_)
parseInt(digits) ==
    IF Len(digits) = 0 THEN 0
    ELSE parseInt(SubSeq(digits, 1, Len(digits) - 1)) * 10
            + DigitValue(digits[Len(digits)])

\* the length of the longest run of digits of tagName that starts at from:
\* what a greedy \d+ consumes there (0 when it cannot match)
DigitRun(tagName, from) ==
    IF from > Len(tagName) THEN 0
    ELSE LET runs == { n \in 0..(Len(tagName) - from + 1) :
                         \A i \in from..(from + n - 1) : tagName[i] \in Digits }
         IN  CHOOSE n \in runs : \A m \in runs : m <= n

\* variant: the pattern is not anchored at the end of the tag
parseSemverTagUnanchored(tagName) ==
    LET s1 == IF Len(tagName) >= 1 /\ tagName[1] = "v" THEN 2 ELSE 1
        n1 == DigitRun(tagName, s1)
        dot1 == s1 + n1
        n2 == DigitRun(tagName, dot1 + 1)
        dot2 == dot1 + 1 + n2
        n3 == DigitRun(tagName, dot2 + 1)
        two == /\ n1 > 0
               /\ dot1 <= Len(tagName) /\ tagName[dot1] = "."
               /\ n2 > 0
        three == /\ two
                 /\ dot2 <= Len(tagName) /\ tagName[dot2] = "."
                 /\ n3 > 0
    IN  IF ~two THEN << >>
        ELSE << [major |-> parseInt(SubSeq(tagName, s1, dot1 - 1)),
                 minor |-> parseInt(SubSeq(tagName, dot1 + 1, dot2 - 1)),
                 patch |-> IF three
                           THEN parseInt(SubSeq(tagName, dot2 + 1, dot2 + n3))
                           ELSE 0] >>

\* parseSemverTag: tagName.match(/^v?(\d+)\.(\d+)(?:\.(\d+))?$/); the result
\* is << >> for null
parseSemverTag(tagName) ==
    LET s1 == IF Len(tagName) >= 1 /\ tagName[1] = "v" THEN 2 ELSE 1
        n1 == DigitRun(tagName, s1)
        dot1 == s1 + n1
        n2 == DigitRun(tagName, dot1 + 1)
        dot2 == dot1 + 1 + n2
        n3 == DigitRun(tagName, dot2 + 1)
        two == /\ n1 > 0
               /\ dot1 <= Len(tagName) /\ tagName[dot1] = "."
               /\ n2 > 0
        three == /\ two
                 /\ dot2 <= Len(tagName) /\ tagName[dot2] = "."
                 /\ n3 > 0
        match == \/ two /\ dot2 = Len(tagName) + 1
                 \/ three /\ dot2 + 1 + n3 = Len(tagName) + 1
    IN  IF ~match THEN << >>
        ELSE << [major |-> parseInt(SubSeq(tagName, s1, dot1 - 1)),
                 minor |-> parseInt(SubSeq(tagName, dot1 + 1, dot2 - 1)),
                 patch |-> IF three
                           THEN parseInt(SubSeq(tagName, dot2 + 1, dot2 + n3))
                           ELSE 0] >>

filterStableMajorReleases(releases) ==
    SelectSeq(releases, LAMBDA r :
        IF r.isPrerelease THEN FALSE
        ELSE LET semver == parseSemverTag(r.tagName)
             IN  Len(semver) = 1 /\ semver[1].minor = 0 /\ semver[1].patch = 0)

filterStableMinorReleases(releases) ==
    SelectSeq(releases, LAMBDA r :
        IF r.isPrerelease THEN FALSE
        ELSE LET semver == parseSemverTag(r.tagName)
             IN  Len(semver) = 1 /\ semver[1].patch = 0)

\* the characters short tags are drawn from
TagAlphabet == { "v", "0", "1", ".", "-" }

TagChoices == UNION { [1..n -> TagAlphabet] : n \in 1..MaxTagLen }

Tag_v2_0_0 == << "v", "2", ".", "0", ".", "0" >>
Tag_v2_1_0 == << "v", "2", ".", "1", ".", "0" >>
Tag_v2_1_0_beta == << "v", "2", ".", "1", ".", "0", "-", "b", "e", "t", "a" >>
Tag_v1_0_0 == << "v", "1", ".", "0", ".", "0" >>

Release(tagName, isPrerelease) ==
    [tagName |-> tagName, isPrerelease |-> isPrerelease]

\* release lists as fetchReleases hands them over: one release with a short
\* tag, or the four releases v2.0.0, v2.1.0, v2.1.0-beta, v1.0.0
ReleaseLists ==
    { << Release(tag, pre) >> : tag \in TagChoices, pre \in BOOLEAN }
    \cup { << Release(Tag_v2_0_0, FALSE), Release(Tag_v2_1_0, FALSE),
              Release(Tag_v2_1_0_beta, pre), Release(Tag_v1_0_0, FALSE) >> :
            pre \in BOOLEAN }

InitReleases ==
    /\ CoordIdle
    /\ calc \in { [op |-> "releases", releases |-> rs] : rs \in ReleaseLists }

\* both filters applied to the fetched releases
CallFilterStableReleases ==
    /\ calc.op = "releases"
    /\ calc' = [op |-> "filterStable", releases |-> calc.releases,
                major |-> filterStableMajorReleases(calc.releases),
                minor |-> filterStableMinorReleases(calc.releases)]
    /\ UNCHANGED coordVars

NextReleases == CallFilterStableReleases

SpecReleases == InitReleases /\ [][NextReleases]_vars

\* the tag, an optional v removed
TagBody(tagName) ==
    IF Len(tagName) >= 1 /\ tagName[1] = "v" THEN Tail(tagName) ELSE tagName

\* the positions of the dots of a tag body
DotsOf(body) == { i \in 1..Len(body) : body[i] = "." }

\* the tag is two or three non-empty runs of digits joined by dots, after an
\* optional v
HasVersionShape(tagName) ==
    LET body == TagBody(tagName)
        dots == DotsOf(body)
    IN  /\ Cardinality(dots) \in {1, 2}
        /\ \A i \in 1..Len(body) : i \notin dots => body[i] \in Digits
        /\ 1 \notin dots /\ Len(body) \notin dots
        /\ \A i \in dots : i + 1 \notin dots

\* every digit of the k-th dotted part of the tag is 0, or there is no such part
PartIsZero(tagName, k) ==
    LET body == TagBody(tagName)
        dots == DotsOf(body)
    IN  \A i \in 1..Len(body) :
           (i \notin dots /\ Cardinality({ d \in dots : d < i }) = k - 1)
              => body[i] = "0"

IsIn(r, releases) == \E i \in 1..Len(releases) : releases[i] = r

TagNames(releases) == [i \in 1..Len(releases) |-> releases[i].tagName]

\* C19: a release is kept as stable major only if it is not a pre-release and
\* its tag has the version shape with minor and patch 0, and as stable minor
\* only if it is not a pre-release and its tag has the version shape with
\* patch 0; a tag without the shape is in neither result and both filters
\* return; of v2.0.0, v2.1.0, v2.1.0-beta, v1.0.0 the stable majors are v2.0.0
\* and v1.0.0, v2.1.0 is a stable minor but no stable major, and v2.1.0-beta
\* is in neither.
C19_StableReleaseFilters ==
    calc.op = "filterStable" =>
        /\ \A i \in 1..Len(calc.releases) :
              LET r == calc.releases[i]
              IN  /\ IsIn(r, calc.major) =>
                        /\ ~r.isPrerelease
                        /\ HasVersionShape(r.tagName)
                        /\ PartIsZero(r.tagName, 2) /\ PartIsZero(r.tagName, 3)
                  /\ IsIn(r, calc.minor) =>
                        /\ ~r.isPrerelease
                        /\ HasVersionShape(r.tagName)
                        /\ PartIsZero(r.tagName, 3)
                  /\ ~HasVersionShape(r.tagName) =>
                        ~IsIn(r, calc.major) /\ ~IsIn(r, calc.minor)
        /\ TagNames(calc.releases)
              = << Tag_v2_0_0, Tag_v2_1_0, Tag_v2_1_0_beta, Tag_v1_0_0 >>
           => /\ TagNames(calc.major) = << Tag_v2_0_0, Tag_v1_0_0 >>
              /\ Tag_v2_1_0 \in { calc.minor[i].tagName : i \in 1..Len(calc.minor) }
              /\ \A i \in 1..Len(calc.minor) :
                    calc.minor[i].tagName # Tag_v2_1_0_beta

\* the four releases, v2.1.0-beta not flagged as a pre-release by GitHub:
\* its tag alone keeps it out of both results
C19_Witness ==
    /\ calc.op = "filterStable"
    /\ Len(calc.releases) = 4
    /\ ~calc.releases[3].isPrerelease
    /\ calc.releases[3].tagName = Tag_v2_1_0_beta
    /\ TagNames(calc.major) = << Tag_v2_0_0, Tag_v1_0_0 >>
    /\ TagNames(calc.minor) = << Tag_v2_0_0, Tag_v2_1_0, Tag_v1_0_0 >>

\* ============================================ the scoring engine, scoring.ts
\* Dates are days since 2025-01-01T00:00:00Z; a Date's getTime() is that
\* number times the milliseconds of a day, so the quotient by
\* (1000 * 60 * 60 * 24) under Math.floor is the difference in days.
\* A real number is held as an integer numerator over a stated denominator.

\* Math.round(num / den) for den > 0: the nearest integer, a half rounding up
RoundRatio(num, den) == (2 * num + den) \div (2 * den)

Min2(a, b) == IF a <= b THEN a ELSE b
Max2(a, b) == IF a >= b THEN a ELSE b

\* LLM_CONFIGS of the benchmark revision; knowledgeCutoff as a day number
\* (2025-03-01 is day 59, 2025-08-31 day 242, 2025-01-01 day 0)
LLM_CONFIGS ==
    << [id |-> "claude-4.5-opus", knowledgeCutoff |-> 59,
        benchmarks |-> [sweVerified |-> 81, humanEval |-> 92,
                        debugging |-> 95, codeGeneration |-> 92]],
       [id |-> "claude-4.5-sonnet", knowledgeCutoff |-> 59,
        benchmarks |-> [sweVerified |-> 77, humanEval |-> 92,
                        debugging |-> 90, codeGeneration |-> 88]],
       [id |-> "gpt-5.2-codex", knowledgeCutoff |-> 242,
        benchmarks |-> [sweVerified |-> 80, humanEval |-> 90,
                        debugging |-> 85, codeGeneration |-> 90]],
       [id |-> "gemini-3-pro", knowledgeCutoff |-> 0,
        benchmarks |-> [sweVerified |-> 76, humanEval |-> 84,
                        debugging |-> 80, codeGeneration |-> 82]] >>

\* WEIGHTS, in hundredths
WEIGHTS ==
    [coverage |-> 25, languageAI |-> 20, aiReadiness |-> 20,
     documentation |-> 10, modelCapability |-> 10, adoption |-> 5,
     momentum |-> 5, maintenance |-> 5]

\* LANGUAGE_AI_SCORES[language] || LANGUAGE_AI_SCORES.Other
LANGUAGE_AI_SCORES(language) ==
    CASE language = "TypeScript" -> [generation |-> 100, debugging |-> 100]
      [] language = "JavaScript" -> [generation |-> 95, debugging |-> 80]
      [] language = "Python" -> [generation |-> 95, debugging |-> 95]
      [] language = "Java" -> [generation |-> 80, debugging |-> 85]
      [] language = "C#" -> [generation |-> 80, debugging |-> 85]
      [] language = "Kotlin" -> [generation |-> 75, debugging |-> 80]
      [] language = "Swift" -> [generation |-> 75, debugging |-> 80]
      [] language = "Go" -> [generation |-> 70, debugging |-> 90]
      [] language = "PHP" -> [generation |-> 70, debugging |-> 75]
      [] language = "Ruby" -> [generation |-> 70, debugging |-> 80]
      [] language = "Rust" -> [generation |-> 60, debugging |-> 40]
      [] language = "Scala" -> [generation |-> 60, debugging |-> 60]
      [] language = "Objective-C" -> [generation |-> 55, debugging |-> 55]
      [] language = "C" -> [generation |-> 50, debugging |-> 35]
      [] language = "C++" -> [generation |-> 50, debugging |-> 30]
      [] language = "Haskell" -> [generation |-> 40, debugging |-> 45]
      [] OTHER -> [generation |-> 50, debugging |-> 50]

\* getLanguageAIScore; the empty string stands for every falsy language
getLanguageAIScore(language) ==
    IF language = "" THEN 50
    ELSE LET scores == LANGUAGE_AI_SCORES(language)
         IN  RoundRatio(scores.generation * 6 + scores.debugging * 4, 10)

calculateLanguageAI(repo) == getLanguageAIScore(repo.language)

calculateModelCapability(llm) ==
    RoundRatio(llm.benchmarks.sweVerified * 4 + llm.benchmarks.humanEval * 3
                 + llm.benchmarks.debugging * 2 + llm.benchmarks.codeGeneration,
               10)

\* calculateCoverage; releaseScore and activityScore are held in tenths
calculateCoverage(repo, releases, llm) ==
    LET cutoff == llm.knowledgeCutoff
        stableMajorReleases == filterStableMajorReleases(releases)
        hasLatest == Len(stableMajorReleases) > 0
        latestReleaseDate == stableMajorReleases[1].publishedAt
        releaseScore ==
            IF ~hasLatest THEN 100 * 10
            ELSE IF latestReleaseDate <= cutoff THEN 100 * 10
            ELSE Max2(20 * 10, 100 * 10 - (latestReleaseDate - cutoff) * 5)
        activityScore ==
            IF repo.pushedAt > cutoff
            THEN Max2(30 * 10, 100 * 10 - (repo.pushedAt - cutoff) * 3)
            ELSE 100 * 10
        maturityScore == IF repo.createdAt < cutoff THEN 100 ELSE 50
    IN  RoundRatio(releaseScore * 5 + activityScore * 3 + maturityScore * 20,
                   100)

\* Math.log10(n) in thousandths, rounded down, for the counts the signal
\* bundles hold
Log10Milli(n) ==
    CASE n = 1 -> 0
      [] n = 11 -> 1041
      [] n = 100 -> 2000
      [] n = 1000 -> 3000
      [] n = 50001 -> 4698
      [] n = 100000 -> 5000
      [] n = 10000000 -> 7000

\* calculateAdoption; the three part scores are held in ten-thousandths.
\* npmInfo is << >> for null
calculateAdoption(repo, npmInfo) ==
    LET cap == 100 * 10000
        starScore == Min2(cap, Log10Milli(repo.stars + 1) * 200)
        forkScore == Min2(cap, Log10Milli(repo.forks + 1) * 250)
        downloadScore ==
            IF Len(npmInfo) = 1 /\ npmInfo[1].weeklyDownloads > 0
            THEN Min2(cap, Log10Milli(npmInfo[1].weeklyDownloads + 1) * 143)
            ELSE 50 * 10000
    IN  RoundRatio(starScore * 4 + downloadScore * 4 + forkScore * 2,
                   10 * 10000)

calculateDocumentation(docSignals) ==
    LET readme == IF docSignals.readmeSize > 10000 THEN 40
                  ELSE IF docSignals.readmeSize > 5000 THEN 30
                  ELSE IF docSignals.readmeSize > 2000 THEN 20
                  ELSE IF docSignals.readmeSize > 500 THEN 10
                  ELSE 0
        hasDocs == docSignals.hasDocsDir \/ docSignals.hasDocsLink
        hasExamples == docSignals.hasExamplesDir \/ docSignals.hasExamplesLink
        score == readme
                 + (IF hasDocs THEN 25 ELSE 0)
                 + (IF hasExamples THEN 20 ELSE 0)
                 + (IF docSignals.hasChangelog THEN 15 ELSE 0)
    IN  Min2(100, score)

\* variant: the sum of the points is returned without Math.min(100, score)
calculateAIReadinessUnclamped(repo, npmInfo, hasLlmsTxt, hasClaudeMd, hasAgentMd) ==
    (IF repo.hasTypescript \/ repo.language = "TypeScript"
        \/ (Len(npmInfo) = 1
            /\ npmInfo[1].hasTypes \in {"bundled", "definitelyTyped"})
     THEN 40 ELSE 0)
    + (IF hasLlmsTxt THEN 30 ELSE 0)
    + (IF hasClaudeMd THEN 10 ELSE 0)
    + (IF hasAgentMd THEN 10 ELSE 0)
    + (IF repo.topics >= 3 THEN 15 ELSE 0)
    + (IF repo.license # "" THEN 15 ELSE 0)

\* calculateAIReadiness; license is "" for null, topics is the number of topics
calculateAIReadiness(repo, npmInfo, hasLlmsTxt, hasClaudeMd, hasAgentMd) ==
    LET hasTypescript == repo.hasTypescript \/ repo.language = "TypeScript"
        hasNpmTypes == /\ Len(npmInfo) = 1
                       /\ npmInfo[1].hasTypes \in {"bundled", "definitelyTyped"}
        hasGoodTopics == repo.topics >= 3
        hasLicense == repo.license # ""
        score == (IF hasTypescript \/ hasNpmTypes THEN 40 ELSE 0)
                 + (IF hasLlmsTxt THEN 30 ELSE 0)
                 + (IF hasClaudeMd THEN 10 ELSE 0)
                 + (IF hasAgentMd THEN 10 ELSE 0)
                 + (IF hasGoodTopics THEN 15 ELSE 0)
                 + (IF hasLicense THEN 15 ELSE 0)
    IN  Min2(100, score)

\* calculateMomentum; commitFrequency is held in tenths of a commit per week
calculateMomentum(activitySignals) ==
    LET commits == IF activitySignals.commitFrequency > 10 * 10 THEN 40
                   ELSE IF activitySignals.commitFrequency > 5 * 10 THEN 30
                   ELSE IF activitySignals.commitFrequency > 2 * 10 THEN 20
                   ELSE IF activitySignals.commitFrequency > 5 THEN 10
                   ELSE 0
        releaseFrequency ==
            IF activitySignals.avgDaysBetweenReleases > 0
            THEN IF activitySignals.avgDaysBetweenReleases < 30 THEN 35
                 ELSE IF activitySignals.avgDaysBetweenReleases < 60 THEN 25
                 ELSE IF activitySignals.avgDaysBetweenReleases < 120 THEN 15
                 ELSE IF activitySignals.avgDaysBetweenReleases < 180 THEN 5
                 ELSE 0
            ELSE 0
        recent == IF activitySignals.recentCommitsCount >= 30 THEN 25
                  ELSE IF activitySignals.recentCommitsCount >= 20 THEN 20
                  ELSE IF activitySignals.recentCommitsCount >= 10 THEN 15
                  ELSE IF activitySignals.recentCommitsCount >= 5 THEN 10
                  ELSE 0
    IN  Min2(100, commits + releaseFrequency + recent)

\* calculateMaintenance; issueRatio < p/100 is openIssues * 100 < p * max(1, stars)
calculateMaintenance(repo, activitySignals) ==
    LET stars == Max2(1, repo.stars)
        issues == IF repo.openIssues * 100 < 2 * stars THEN 30
                  ELSE IF repo.openIssues * 100 < 5 * stars THEN 20
                  ELSE IF repo.openIssues * 100 < 10 * stars THEN 10
                  ELSE 0
        prs == IF activitySignals.avgPRCloseTimeHours > 0
               THEN IF activitySignals.avgPRCloseTimeHours < 24 THEN 20
                    ELSE IF activitySignals.avgPRCloseTimeHours < 72 THEN 15
                    ELSE IF activitySignals.avgPRCloseTimeHours < 168 THEN 10
                    ELSE IF activitySignals.avgPRCloseTimeHours < 720 THEN 5
                    ELSE 0
               ELSE 0
    IN  Min2(100, 50 + issues + prs)

\* calculateScoreForLLM of scoring.ts: the RepoScore, each dimension by its
\* score; unrounded is the local overall (in hundredths) the result is made of
calculateScoreForLLM(bundle, llm) ==
    LET coverage == calculateCoverage(bundle.repo, bundle.releases, llm)
        languageAI == calculateLanguageAI(bundle.repo)
        aiReadiness == calculateAIReadiness(bundle.repo, bundle.npmInfo,
                          bundle.hasLlmsTxt, bundle.hasClaudeMd, bundle.hasAgentMd)
        documentation == calculateDocumentation(bundle.docSignals)
        modelCapability == calculateModelCapability(llm)
        adoption == calculateAdoption(bundle.repo, bundle.npmInfo)
        momentum == calculateMomentum(bundle.activitySignals)
        maintenance == calculateMaintenance(bundle.repo, bundle.activitySignals)
        overall == coverage * WEIGHTS.coverage
                   + languageAI * WEIGHTS.languageAI
                   + aiReadiness * WEIGHTS.aiReadiness
                   + documentation * WEIGHTS.documentation
                   + modelCapability * WEIGHTS.modelCapability
                   + adoption * WEIGHTS.adoption
                   + momentum * WEIGHTS.momentum
                   + maintenance * WEIGHTS.maintenance
    IN  [overall |-> ScoredPair(overall).overall,
         grade |-> ScoredPair(overall).grade,
         unrounded |-> overall,
         coverage |-> coverage, languageAI |-> languageAI,
         aiReadiness |-> aiReadiness, documentation |-> documentation,
         modelCapability |-> modelCapability, adoption |-> adoption,
         momentum |-> momentum, maintenance |-> maintenance]

\* ------------------------------- the revision with per-model weight profiles
\* LLM_CONFIGS of the profile revision: knowledgeCutoff as a day number
\* (2025-08-31 is day 242, 2025-05-01 day 120, 2025-01-01 day 0) and the
\* profile's multipliers in hundredths
LLM_PROFILE_CONFIGS ==
    << [id |-> "gpt-5.2-codex", knowledgeCutoff |-> 242,
        profile |-> [coverageWeight |-> 100, adoptionWeight |-> 90,
                     documentationWeight |-> 95, aiReadinessWeight |-> 115,
                     momentumWeight |-> 110, maintenanceWeight |-> 100,
                     coverageDecayFactor |-> 120]],
       [id |-> "claude-4.5-opus", knowledgeCutoff |-> 120,
        profile |-> [coverageWeight |-> 100, adoptionWeight |-> 95,
                     documentationWeight |-> 110, aiReadinessWeight |-> 105,
                     momentumWeight |-> 100, maintenanceWeight |-> 105,
                     coverageDecayFactor |-> 110]],
       [id |-> "gemini-3-pro", knowledgeCutoff |-> 0,
        profile |-> [coverageWeight |-> 100, adoptionWeight |-> 105,
                     documentationWeight |-> 100, aiReadinessWeight |-> 100,
                     momentumWeight |-> 108, maintenanceWeight |-> 95,
                     coverageDecayFactor |-> 100]] >>

\* WEIGHTS of the profile revision, in hundredths
PROFILE_WEIGHTS ==
    [coverage |-> 25, adoption |-> 20, documentation |-> 15,
     aiReadiness |-> 15, momentum |-> 15, maintenance |-> 10]

\* calculateCoverage of the profile revision: the latest release is the
\* first that is not a pre-release, and the decay per day is divided by the
\* profile's coverageDecayFactor; releaseScore and activityScore are held as
\* numerators over decayFactor
calculateCoverageWithDecay(repo, releases, llm) ==
    LET cutoff == llm.knowledgeCutoff
        stable == SelectSeq(releases, LAMBDA r : ~r.isPrerelease)
        hasLatest == Len(stable) > 0
        latestReleaseDate == stable[1].publishedAt
        decayFactor == llm.profile.coverageDecayFactor
        releaseScore ==
            IF ~hasLatest THEN 100 * decayFactor
            ELSE IF latestReleaseDate <= cutoff THEN 100 * decayFactor
            ELSE Max2(20 * decayFactor,
                      100 * decayFactor - (latestReleaseDate - cutoff) * 50)
        activityScore ==
            IF repo.pushedAt > cutoff
            THEN Max2(30 * decayFactor,
                      100 * decayFactor - (repo.pushedAt - cutoff) * 30)
            ELSE 100 * decayFactor
        maturityScore == IF repo.createdAt < cutoff THEN 100 ELSE 50
    IN  RoundRatio(releaseScore * 5 + activityScore * 3
                     + maturityScore * 2 * decayFactor,
                   10 * decayFactor)

\* variant: the divisor leaves the maintenance weight out
totalWeightWithoutMaintenance(adjustedWeights) ==
    adjustedWeights.coverage + adjustedWeights.adoption
      + adjustedWeights.documentation + adjustedWeights.aiReadiness
      + adjustedWeights.momentum

\* totalWeight of calculateScoreForLLM (profile revision)
totalWeight(adjustedWeights) ==
    adjustedWeights.coverage + adjustedWeights.adoption
      + adjustedWeights.documentation + adjustedWeights.aiReadiness
      + adjustedWeights.momentum + adjustedWeights.maintenance

\* getGrade on the score num / den
getGradeOfRatio(num, den) ==
    IF num >= 85 * den THEN "A"
    ELSE IF num >= 70 * den THEN "B"
    ELSE IF num >= 55 * den THEN "C"
    ELSE IF num >= 40 * den THEN "D"
    ELSE "F"

\* calculateScoreForLLM of the profile revision.  A normalized weight is the
\* numerator adjustedWeights.x over the denominator totalWeight; normalized
\* holds the numerators and divisor the denominator
calculateScoreForLLMWithProfile(bundle, llm) ==
    LET coverage == calculateCoverageWithDecay(bundle.repo, bundle.releases, llm)
        adoption == calculateAdoption(bundle.repo, bundle.npmInfo)
        documentation ==
            calculateDocumentation([bundle.docSignals EXCEPT
                !.hasDocsLink = FALSE, !.hasExamplesLink = FALSE])
        aiReadiness == calculateAIReadiness(bundle.repo, bundle.npmInfo,
                          bundle.hasLlmsTxt, FALSE, FALSE)
        momentum == calculateMomentum(bundle.activitySignals)
        maintenance == calculateMaintenance(bundle.repo, bundle.activitySignals)
        profile == llm.profile
        adjustedWeights ==
            [coverage |-> PROFILE_WEIGHTS.coverage * profile.coverageWeight,
             adoption |-> PROFILE_WEIGHTS.adoption * profile.adoptionWeight,
             documentation |->
                 PROFILE_WEIGHTS.documentation * profile.documentationWeight,
             aiReadiness |->
                 PROFILE_WEIGHTS.aiReadiness * profile.aiReadinessWeight,
             momentum |-> PROFILE_WEIGHTS.momentum * profile.momentumWeight,
             maintenance |->
                 PROFILE_WEIGHTS.maintenance * profile.maintenanceWeight]
        divisor == totalWeight(adjustedWeights)
        overall == coverage * adjustedWeights.coverage
                   + adoption * adjustedWeights.adoption
                   + documentation * adjustedWeights.documentation
                   + aiReadiness * adjustedWeights.aiReadiness
                   + momentum * adjustedWeights.momentum
                   + maintenance * adjustedWeights.maintenance
    IN  [overall |-> RoundRatio(overall, divisor),
         grade |-> getGradeOfRatio(overall, divisor),
         normalized |-> adjustedWeights, divisor |-> divisor,
         coverage |-> coverage, adoption |-> adoption,
         documentation |-> documentation, aiReadiness |-> aiReadiness,
         momentum |-> momentum, maintenance |-> maintenance]

\* ------------------------------------------------------- the signal bundles
\* What the collectors hand to calculateScores, each group drawn from a few
\* values on both sides of the thresholds of its dimension.
PopularityChoices ==
    { [stars |-> 10, forks |-> 0, openIssues |-> 2],
      [stars |-> 999, forks |-> 99, openIssues |-> 30],
      [stars |-> 50000, forks |-> 99999, openIssues |-> 500] }

LanguageChoices ==
    { [language |-> "TypeScript", hasTypescript |-> TRUE],
      [language |-> "Rust", hasTypescript |-> FALSE],
      [language |-> "", hasTypescript |-> FALSE] }

LicenseChoices ==
    { [license |-> "", topics |-> 0], [license |-> "MIT", topics |-> 3] }

\* createdAt and pushedAt: before every cutoff, between the cutoffs, after
\* every cutoff
DateChoices ==
    { [createdAt |-> 0 - 1000, pushedAt |-> 0 - 30],
      [createdAt |-> 0 - 1000, pushedAt |-> 100],
      [createdAt |-> 0 - 1000, pushedAt |-> 400],
      [createdAt |-> 250, pushedAt |-> 250],
      [createdAt |-> 250, pushedAt |-> 400] }

DatedRelease(tagName, isPrerelease, publishedAt) ==
    [tagName |-> tagName, isPrerelease |-> isPrerelease,
     publishedAt |-> publishedAt]

\* release lists, newest first
ReleaseChoices ==
    { << >>,
      << DatedRelease(Tag_v2_0_0, FALSE, 0 - 100) >>,
      << DatedRelease(Tag_v2_1_0, FALSE, 380), DatedRelease(Tag_v2_0_0, FALSE, 300) >>,
      << DatedRelease(Tag_v2_1_0_beta, TRUE, 390), DatedRelease(Tag_v1_0_0, FALSE, 260) >> }

NpmChoices ==
    { << >>,
      << [weeklyDownloads |-> 0, hasTypes |-> "none"] >>,
      << [weeklyDownloads |-> 9999999, hasTypes |-> "bundled"] >> }

AgentFileChoices ==
    { [hasLlmsTxt |-> FALSE, hasClaudeMd |-> FALSE, hasAgentMd |-> FALSE],
      [hasLlmsTxt |-> TRUE, hasClaudeMd |-> FALSE, hasAgentMd |-> FALSE],
      [hasLlmsTxt |-> TRUE, hasClaudeMd |-> TRUE, hasAgentMd |-> TRUE] }

DocChoices ==
    { [readmeSize |-> 0, hasDocsDir |-> FALSE, hasDocsLink |-> FALSE,
       hasExamplesDir |-> FALSE, hasExamplesLink |-> FALSE, hasChangelog |-> FALSE],
      [readmeSize |-> 600, hasDocsDir |-> FALSE, hasDocsLink |-> TRUE,
       hasExamplesDir |-> FALSE, hasExamplesLink |-> FALSE, hasChangelog |-> FALSE],
      [readmeSize |-> 6000, hasDocsDir |-> TRUE, hasDocsLink |-> FALSE,
       hasExamplesDir |-> FALSE, hasExamplesLink |-> FALSE, hasChangelog |-> TRUE],
      [readmeSize |-> 20000, hasDocsDir |-> TRUE, hasDocsLink |-> TRUE,
       hasExamplesDir |-> TRUE, hasExamplesLink |-> TRUE, hasChangelog |-> TRUE] }

ActivityChoices ==
    { [recentCommitsCount |-> 0, commitFrequency |-> 0,
       avgDaysBetweenReleases |-> 0, avgPRCloseTimeHours |-> 0],
      [recentCommitsCount |-> 12, commitFrequency |-> 30,
       avgDaysBetweenReleases |-> 80, avgPRCloseTimeHours |-> 100],
      [recentCommitsCount |-> 30, commitFrequency |-> 120,
       avgDaysBetweenReleases |-> 10, avgPRCloseTimeHours |-> 12] }

AllBundles ==
    { [repo |-> [stars |-> pop.stars, forks |-> pop.forks,
                 openIssues |-> pop.openIssues,
                 language |-> lang.language,
                 hasTypescript |-> lang.hasTypescript,
                 license |-> lic.license, topics |-> lic.topics,
                 createdAt |-> dates.createdAt, pushedAt |-> dates.pushedAt],
       releases |-> rels,
       npmInfo |-> npm,
       hasLlmsTxt |-> files.hasLlmsTxt,
       hasClaudeMd |-> files.hasClaudeMd,
       hasAgentMd |-> files.hasAgentMd,
       docSignals |-> docs,
       activitySignals |-> act] :
        pop \in PopularityChoices, lang \in LanguageChoices,
        lic \in LicenseChoices,
        dates \in DateChoices,
        rels \in ReleaseChoices,
        npm \in NpmChoices, files \in AgentFileChoices,
        docs \in DocChoices, act \in ActivityChoices }

\* a bundle is valid when no release is older than the repository
SignalBundles ==
    { b \in AllBundles :
        \A i \in 1..Len(b.releases) :
           b.releases[i].publishedAt >= b.repo.createdAt }

InitScore ==
    /\ CoordIdle
    /\ calc \in { [op |-> "bundle", bundle |-> b, llm |-> i] :
                    b \in SignalBundles, i \in 1..Len(LLM_CONFIGS) }

\* calculateScores of scoring.ts reaches model calc.llm
CallCalculateScoreForLLM ==
    /\ calc.op = "bundle"
    /\ calc' = [op |-> "calculateScoreForLLM", bundle |-> calc.bundle,
                llm |-> LLM_CONFIGS[calc.llm].id,
                cutoff |-> LLM_CONFIGS[calc.llm].knowledgeCutoff,
                score |-> calculateScoreForLLM(calc.bundle, LLM_CONFIGS[calc.llm])]
    /\ UNCHANGED coordVars

\* calculateScores of the profile revision reaches model calc.llm
CallCalculateScoreForLLMWithProfile ==
    /\ calc.op = "bundle"
    /\ calc.llm <= Len(LLM_PROFILE_CONFIGS)
    /\ calc' = [op |-> "calculateScoreForLLMWithProfile", bundle |-> calc.bundle,
                llm |-> LLM_PROFILE_CONFIGS[calc.llm].id,
                cutoff |-> LLM_PROFILE_CONFIGS[calc.llm].knowledgeCutoff,
                score |-> calculateScoreForLLMWithProfile(
                              calc.bundle, LLM_PROFILE_CONFIGS[calc.llm])]
    /\ UNCHANGED coordVars

NextScore ==
    \/ CallCalculateScoreForLLM
    \/ CallCalculateScoreForLLMWithProfile

SpecScore == InitScore /\ [][NextScore]_vars

\* the dimension scores of a RepoScore of either revision
DimensionScores(score) ==
    { score.coverage, score.adoption, score.documentation, score.aiReadiness,
      score.momentum, score.maintenance }
    \cup (IF "languageAI" \in DOMAIN score
          THEN { score.languageAI, score.modelCapability } ELSE {})

Scored == calc.op \in {"calculateScoreForLLM", "calculateScoreForLLMWithProfile"}

\* C16 (as stated): the grade of a RepoScore is the one the thresholds give
\* for the rounded overall stored in it.
C16_GradeOfRoundedOverall ==
    Scored => calc.score.grade = getGrade(calc.score.overall * Scale)

\* C17: each dimension score is in [0, 100] and so is overall, for every
\* bundle and every configured model of either revision.
C17_ScoresWithinRange ==
    Scored =>
        /\ \A d \in DimensionScores(calc.score) : 0 <= d /\ d <= 100
        /\ 0 <= calc.score.overall /\ calc.score.overall <= 100

\* every point of calculateAIReadiness is earned (120 before the clamp) and
\* the download score is capped: the dimension is 100 and overall is within
\* range
C17_Witness ==
    /\ calc.op = "calculateScoreForLLM"
    /\ calc.bundle.hasLlmsTxt /\ calc.bundle.hasClaudeMd /\ calc.bundle.hasAgentMd
    /\ calc.bundle.repo.hasTypescript
    /\ calc.bundle.repo.topics >= 3 /\ calc.bundle.repo.license # ""
    /\ Len(calc.bundle.npmInfo) = 1
    /\ calc.bundle.npmInfo[1].weeklyDownloads = 9999999
    /\ calc.score.aiReadiness = 100
    /\ calc.score.overall <= 100

\* the sum of the six weights of a weight vector
SumOfWeights(w) ==
    w.coverage + w.adoption + w.documentation + w.aiReadiness + w.momentum
      + w.maintenance

\* C18: for every configured profile the weights applied to the dimension
\* scores, normalized.x / divisor, sum to 1, and overall is the rounded sum
\* of the dimension scores under those weights.
C18_WeightsRenormalized ==
    calc.op = "calculateScoreForLLMWithProfile" =>
        LET sc == calc.score
            w == sc.normalized
        IN  /\ sc.divisor > 0
            /\ SumOfWeights(w) = sc.divisor
            /\ sc.overall =
                 RoundRatio(sc.coverage * w.coverage + sc.adoption * w.adoption
                              + sc.documentation * w.documentation
                              + sc.aiReadiness * w.aiReadiness
                              + sc.momentum * w.momentum
                              + sc.maintenance * w.maintenance,
                            sc.divisor)

\* a profile whose adjusted weights do not sum to 1 before the division
\* (gpt-5.2-codex: 1.01)
C18_Witness ==
    /\ calc.op = "calculateScoreForLLMWithProfile"
    /\ calc.llm = "gpt-5.2-codex"
    /\ calc.score.divisor # SumOfWeights(PROFILE_WEIGHTS) * 100
    /\ SumOfWeights(calc.score.normalized) = calc.score.divisor

\* C20 (as stated): a repository with 10 stars, no releases, no README and
\* created after every configured cutoff scores Coverage <= 55,
\* Documentation = 0 and grade D or F, for every configured model.
C20_NewBareRepositoryScoresLow ==
    ( /\ Scored
      /\ calc.bundle.repo.stars = 10
      /\ calc.bundle.releases = << >>
      /\ calc.bundle.docSignals.readmeSize = 0
      /\ \A i \in 1..Len(LLM_CONFIGS) :
            calc.bundle.repo.createdAt > LLM_CONFIGS[i].knowledgeCutoff
      /\ \A i \in 1..Len(LLM_PROFILE_CONFIGS) :
            calc.bundle.repo.createdAt > LLM_PROFILE_CONFIGS[i].knowledgeCutoff )
    => /\ calc.score.coverage <= 55
       /\ calc.score.documentation = 0
       /\ calc.score.grade \in {"D", "F"}


\* ================================================= a configured cache max-age
\* The coordinator in a deployment that asks for a cache max-age other than
\* the default.
InitOverride ==
    /\ now = StartNow
    /\ store \in { << >> } \cup { << row >> : row \in InitRows }
    /\ env \in Bindings({ << DEFAULT_CACHE_MAX_AGE_HOURS \div 2 >>,
                          << 2 * DEFAULT_CACHE_MAX_AGE_HOURS >> })
    /\ started = 0
    /\ reqs = EmptyBag
    /\ tasks = EmptyBag
    /\ lastResponse = << >>
    /\ lastRefresh = << >>
    /\ lastWrite = << >>
    /\ calc = NoCall

SpecOverride == InitOverride /\ [][Next]_vars

\* C25 (as stated): with a cache max-age override configured, a lookup that
\* finds a record of the current schema version answers it as stale exactly
\* when the record is older than the override.
C25_OverrideClassifies ==
    [][ ( /\ Answered
          /\ Len(env.cacheMaxAgeHours) = 1
          /\ lastResponse'[1].cache \in {"fresh", "stale"} )
        => ( lastResponse'[1].cache = "stale"
               <=> now - lastResponse'[1].result[1].fetchedAt
                      > env.cacheMaxAgeHours[1] ) ]_vars

\* C27 (as stated): once a call getOrFetchRepo(owner, name) has fetched and
\* stored a record on the miss path, a later call with the same owner and
\* name while that record is the last one written and within maxAge is a
\* fresh hit on it with no upstream fetch, whatever spelling was requested.
C27_RefetchAfterMissIsFreshHit ==
    [][ \A q \in BagToSet(reqs) :
           ( /\ LeavesLookup(q)
             /\ env.DB
             /\ ~(Answered /\ lastResponse'[1].outcome = "threw")
             /\ Len(lastResponse) = 1
             /\ lastResponse[1].owner = q.owner /\ lastResponse[1].name = q.name
             /\ lastResponse[1].cache \in {"absent", "old"}
             /\ lastResponse[1].outcome = "returned"
             /\ lastResponse[1].saves = 1
             /\ Len(lastResponse[1].result) = 1
             /\ Len(lastWrite) = 1
             /\ lastWrite[1].rec = lastResponse[1].result[1]
             /\ now - lastWrite[1].rec.fetchedAt <= DEFAULT_CACHE_MAX_AGE_HOURS )
           => /\ AnsweredWithoutThrow
              /\ lastResponse'[1].cache = "fresh"
              /\ lastResponse'[1].result = lastResponse[1].result
              /\ lastResponse'[1].fetches = 0 ]_vars

\* C28 (as stated): for every key the fetchedAt of the stored record never
\* moves backwards: no upsert replaces a row by a record fetched earlier.
C28_FetchedAtNeverDecreases ==
    [][ \A i \in 1..Len(store) : \A j \in 1..Len(store') :
           (store'[j].owner = store[i].owner /\ store'[j].name = store[i].name)
              => store'[j].fetched_at >= store[i].fetched_at ]_vars


\* ========================================================= the badge endpoint
\* GET /badge/<owner>/<repo>[.svg]?llm=<id>.  calc holds the handler's position
\* and, once it has returned, the Response.
LLM_ALIASES(llmId) ==
    CASE llmId = "gpt-5.2" -> << "gpt-5.2-codex" >>
      [] llmId = "claude-4.5-sonnet" -> << "claude-4.5-opus" >>
      [] OTHER -> << >>

GRADE_COLORS(grade) ==
    CASE grade = "A" -> << "22c55e" >>
      [] grade = "B" -> << "84cc16" >>
      [] grade = "C" -> << "eab308" >>
      [] grade = "D" -> << "f97316" >>
      [] grade = "F" -> << "ef4444" >>
      [] OTHER -> << >>



\* repo.endsWith('.svg') ? repo.slice(0, -4) : repo
stripSvg(repo) ==
    CASE repo = "lib.svg" -> "lib"
      [] repo = "kit.svg" -> "kit"
      [] OTHER -> repo

\* searchParams.get('llm') || DEFAULT_LLM ('gpt-5.2-codex'), then LLM_ALIASES[llmId] || llmId
resolveLlmId(query) ==
    LET llmId == IF Len(query) = 0 \/ query[1] = "" THEN "gpt-5.2-codex"
                 ELSE query[1]
    IN  IF Len(LLM_ALIASES(llmId)) = 1 THEN LLM_ALIASES(llmId)[1] ELSE llmId

\* data.scores[llmId]
scoreFor(data, llmId) ==
    LET hits == SelectSeq(data.scores, LAMBDA s : s.llm = llmId)
    IN  IF Len(hits) = 0 THEN << >> ELSE << Head(hits) >>

\* `${score.grade} · ${score.overall}` and the fixed messages
ScoreMessage(score) ==
    [text |-> "grade-overall", grade |-> score.grade, overall |-> score.overall]

PlainMessage(text) == [text |-> text, grade |-> "", overall |-> 0]

\* variant: the degraded badges carry an HTTP error status
badgeResponseWithErrorStatus(label, message, color) ==
    [status |-> IF message.text = "grade-overall" THEN 200
                ELSE IF message.text = "invalid" THEN 400
                ELSE IF message.text = "not found" THEN 404 ELSE 500,
     contentType |-> "image/svg+xml",
     label |-> label, message |-> message, color |-> color]

\* new Response(svg, { headers }): no status given, hence 200
badgeResponse(label, message, color) ==
    [status |-> 200,
     contentType |-> "image/svg+xml",
     label |-> label, message |-> message, color |-> color]


\* getCachedRepo(owner, name, { DB }) without options: allowStale = false
getCachedRepo(st, owner, name, nowHours) ==
    LET row == SelectRow(st, owner, name)
    IN  IF Len(row) = 0 THEN << >>
        ELSE IF ~isDataVersionCurrent(row[1].data_version) THEN << >>
        ELSE IF isCacheStale(row[1].fetched_at, nowHours,
                             DEFAULT_CACHE_MAX_AGE_HOURS) THEN << >>
        ELSE << row[1].data >>

\* the badge for data.scores[llmId], or the 'error' badge without it
BadgeOfData(data, llmId) ==
    IF Len(scoreFor(data, llmId)) = 1
    THEN LET score == scoreFor(data, llmId)[1]
         IN  badgeResponse("AI Era Stack", ScoreMessage(score),
                           IF Len(GRADE_COLORS(score.grade)) = 1
                           THEN GRADE_COLORS(score.grade)[1] ELSE "666666")
    ELSE badgeResponse("AI Era Stack", PlainMessage("error"), "999999")

BadgeReturn(c, response) ==
    calc' = [c EXCEPT !.pc = "returned", !.response = << response >>]


\* the handler up to its try block; pathParts is params.path?.split('/') || []
\* and query is searchParams.get('llm'), << >> when the parameter is absent
BadgeRequest(revision, pathParts, query) ==
    /\ calc = NoCall
    /\ LET c == [op |-> "badge", revision |-> revision, pc |-> "lookup",
                 pathParts |-> pathParts,
                 owner |-> IF Len(pathParts) < 2 THEN "" ELSE pathParts[1],
                 repo |-> IF Len(pathParts) < 2 THEN ""
                          ELSE stripSvg(pathParts[2]),
                 llmId |-> resolveLlmId(query),
                 stored |-> SelectRow(store,
                              IF Len(pathParts) < 2 THEN "" ELSE pathParts[1],
                              IF Len(pathParts) < 2 THEN ""
                              ELSE stripSvg(pathParts[2])),
                 fetches |-> 0, rec |-> NoRecord, response |-> << >>]
       IN  IF Len(pathParts) < 2
           THEN BadgeReturn(c, badgeResponse("error", PlainMessage("invalid"),
                                             "999999"))
           ELSE calc' = c
    /\ UNCHANGED coordVars

\* D1 revision: await getCachedRepo(owner, repo, { DB: env.DB })
BadgeLookup ==
    /\ calc.op = "badge" /\ calc.revision = "d1" /\ calc.pc = "lookup"
    /\ IF ~env.DB
       THEN \* getCachedRepoWithStatus throws; the outer catch answers
            BadgeReturn(calc, badgeResponse("AI Era Stack",
                                            PlainMessage("error"), "999999"))
       ELSE LET cached == getCachedRepo(store, calc.owner, calc.repo, now)
            IN  IF Len(cached) = 1 /\ Len(scoreFor(cached[1], calc.llmId)) = 1
                THEN BadgeReturn(calc, BadgeOfData(cached[1], calc.llmId))
                ELSE calc' = [calc EXCEPT !.pc = "fetching", !.fetches = @ + 1]
    /\ UNCHANGED coordVars


\* await fetchAndSaveRepo(lookupOwner, lookupName, ...): fetchRepoData resolves
BadgeFetchOk(snap) ==
    /\ calc.op = "badge" /\ calc.revision = "d1" /\ calc.pc = "fetching"
    /\ calc' = [calc EXCEPT
                  !.pc = "saving",
                  !.rec = << BuildRecord(lookupOwner(calc.owner, calc.repo),
                                         lookupName(calc.owner, calc.repo),
                                         snap, now) >>]
    /\ UNCHANGED coordVars



\* if (env.DB) await saveRepoToD1(cacheRecord): the upsert commits
BadgeSaveOk ==
    /\ calc.op = "badge" /\ calc.revision = "d1" /\ calc.pc = "saving"
    /\ IF env.DB
       THEN Commit(calc.rec[1], "badge", "")
       ELSE UNCHANGED <<store, lastWrite>>
    /\ BadgeReturn(calc, BadgeOfData(calc.rec[1], calc.llmId))
    /\ UNCHANGED <<now, env, started, reqs, tasks, lastResponse, lastRefresh>>


\* R2 revision: await getCachedRepo(owner, repo, { DATA_BUCKET }); the loader
\* yields the stored record or null
BadgeBucketLookup(found) ==
    /\ calc.op = "badge" /\ calc.revision = "r2" /\ calc.pc = "lookup"
    /\ LET cached == IF found /\ Len(calc.stored) = 1
                     THEN << calc.stored[1].data >> ELSE << >>
       IN  IF Len(cached) = 1 /\ Len(scoreFor(cached[1], calc.llmId)) = 1
           THEN BadgeReturn(calc, BadgeOfData(cached[1], calc.llmId))
           ELSE calc' = [calc EXCEPT !.pc = "api", !.fetches = @ + 1]
    /\ UNCHANGED coordVars

\* R2 revision: await fetch(apiUrl) answers with a JSON record
BadgeApiOk(snap) ==
    /\ calc.op = "badge" /\ calc.revision = "r2" /\ calc.pc = "api"
    /\ BadgeReturn(calc,
          BadgeOfData(BuildRecord(calc.owner, calc.repo, snap, now),
                      calc.llmId))
    /\ UNCHANGED coordVars

\* D1 revision: fetchRepoData or saveRepoToD1 rejects inside fetchAndSaveRepo;
\* the inner catch answers
BadgeFetchAndSaveFails ==
    /\ calc.op = "badge" /\ calc.revision = "d1"
    /\ calc.pc \in {"fetching", "saving"}
    /\ BadgeReturn(calc, badgeResponse("AI Era Stack",
                                       PlainMessage("not found"), "999999"))
    /\ UNCHANGED coordVars

\* the outer catch answers: the D1 query rejects (D1 revision); the lookup,
\* fetch(apiUrl) or response.json() rejects (R2 revision)
BadgeRejects ==
    /\ calc.op = "badge"
    /\ \/ calc.revision = "d1" /\ calc.pc = "lookup" /\ env.DB
       \/ calc.revision = "r2" /\ calc.pc \in {"lookup", "api"}
    /\ BadgeReturn(calc, badgeResponse("AI Era Stack", PlainMessage("error"),
                                       "999999"))
    /\ UNCHANGED coordVars

\* R2 revision: !response.ok
BadgeApiNotOk ==
    /\ calc.op = "badge" /\ calc.revision = "r2" /\ calc.pc = "api"
    /\ BadgeReturn(calc, badgeResponse("AI Era Stack",
                                       PlainMessage("not found"), "999999"))
    /\ UNCHANGED coordVars


NextBadge ==
    \/ \E revision \in {"d1", "r2"},
          pathParts \in { << >>, << "acme" >>, << "acme", "lib" >>,
                          << "Acme", "lib.svg" >>, << "zed", "kit.svg" >>,
                          << "acme", "lib", "extra" >> },
          query \in { << >>, << "" >>, << "gpt-5.2" >>,
                      << "claude-4.5-opus" >>, << "no-such-model" >> } :
             BadgeRequest(revision, pathParts, query)
    \/ BadgeLookup
    \/ \E snap \in Snapshots : BadgeFetchOk(snap)
    \/ BadgeFetchAndSaveFails
    \/ BadgeSaveOk
    \/ \E found \in BOOLEAN : BadgeBucketLookup(found)
    \/ \E snap \in Snapshots : BadgeApiOk(snap)
    \/ BadgeApiNotOk
    \/ BadgeRejects

SpecBadge == Init /\ [][NextBadge]_vars

BadgeReturned == calc.op = "badge" /\ calc.pc = "returned"

\* C21: every answer of the badge endpoint, whichever way the handler took,
\* is an HTTP 200 response carrying an SVG image, and the handler can always
\* take a step towards an answer (no path leaves it without one).
C21_BadgeAlwaysOk ==
    /\ BadgeReturned =>
          /\ Len(calc.response) = 1
          /\ calc.response[1].status = 200
          /\ calc.response[1].contentType = "image/svg+xml"
    /\ (calc.op = "badge" /\ ~BadgeReturned) => ENABLED NextBadge

C21_Witness ==
    /\ BadgeReturned
    /\ calc.response[1].message.text = "not found"
    /\ calc.fetches = 1

\* C26 (as stated): a badge request whose stored record is stale but present,
\* of the current schema version and holding the requested model's score, is
\* answered with that record's grade and overall score without an upstream
\* fetch.
C26_StaleRecordServedWithoutFetch ==
    ( /\ BadgeReturned
      /\ calc.revision = "d1"
      /\ env.DB
      /\ Len(calc.stored) = 1
      /\ isDataVersionCurrent(calc.stored[1].data_version)
      /\ isCacheStale(calc.stored[1].fetched_at, now,
                      DEFAULT_CACHE_MAX_AGE_HOURS)
      /\ Len(scoreFor(calc.stored[1].data, calc.llmId)) = 1
      /\ calc.response[1].message.text # "error" )
    => /\ calc.fetches = 0
       /\ calc.response[1].message
            = ScoreMessage(scoreFor(calc.stored[1].data, calc.llmId)[1])

\* ============================================ GET /api/repo, R2 split storage
\* Two handlers of one isolate run concurrently.  calc holds the bucket
\* (DATA_BUCKET bound or not, the keys of the repos/<owner>/<name>.json
\* objects, the entries of index.json or << >> when it does not exist), the
\* JavaScript objects that hold a RepoIndex (heap, addressed by position), the
\* module-level repoIndex (<< >> for null, else a position in heap) and the
\* two handlers.
Handlers == 1..2



\* new Response(JSON.stringify(data), { status, headers })
jsonResponse(data, status) ==
    [status |-> status, contentType |-> "application/json; charset=utf-8",
     body |-> data]



InitApi ==
    /\ CoordIdle
    /\ calc \in { [op |-> "api", DATA_BUCKET |-> b.DATA_BUCKET,
                   files |-> b.files, index |-> b.index,
                   heap |-> << {} >>, repoIndex |-> << >>,
                   h |-> [i \in Handlers |->
                            [pc |-> "idle", owner |-> "", name |-> "",
                             rec |-> << >>, local |-> 0, payload |-> {},
                             missed |-> FALSE, response |-> << >>]]] :
                  b \in { [DATA_BUCKET |-> FALSE, files |-> {},
                           index |-> << >>],
                          [DATA_BUCKET |-> TRUE, files |-> {},
                           index |-> << >>],
                          [DATA_BUCKET |-> TRUE, files |-> {},
                           index |-> << {} >>],
                          [DATA_BUCKET |-> TRUE,
                           files |-> { <<"acme", "lib">> },
                           index |-> << { <<"acme", "lib">> } >>] } }

ApiAt(i, pc) == calc.op = "api" /\ calc.h[i].pc = pc


\* searchParams.get('owner'), get('name'): "" stands for null and for ''
ApiRequest(i, owner, name) ==
    /\ ApiAt(i, "idle")
    /\ IF owner = "" \/ name = ""
       THEN calc' = [calc EXCEPT
                !.h[i] = [@ EXCEPT !.pc = "done", !.owner = owner,
                                   !.name = name,
                                   !.response = << jsonResponse(
                                        [error |-> "Missing owner or name"],
                                        400) >>]]
       ELSE calc' = [calc EXCEPT
                !.h[i] = [@ EXCEPT !.pc = "cache", !.owner = owner,
                                   !.name = name]]
    /\ UNCHANGED coordVars

\* await getCachedRepo(curatedMatch?.owner || owner, ...), outside the try
ApiCacheLookup(i) ==
    /\ ApiAt(i, "cache")
    /\ LET q == calc.h[i]
           key == << lookupOwner(q.owner, q.name), lookupName(q.owner, q.name) >>
       IN  IF calc.DATA_BUCKET /\ key \in calc.files
           THEN calc' = [calc EXCEPT
                           !.h[i].pc = "done",
                           !.h[i].response =
                               << jsonResponse([owner |-> key[1],
                                                name |-> key[2]], 200) >>]
           ELSE calc' = [calc EXCEPT !.h[i].pc = "fetch",
                                     !.h[i].missed = TRUE]
    /\ UNCHANGED coordVars

\* DATA_BUCKET.get or object.json() rejects inside loadRepoFromR2: nothing
\* catches it and the handler's promise rejects without a Response
ApiCacheLookupRejects(i) ==
    /\ ApiAt(i, "cache")
    /\ calc.DATA_BUCKET
    /\ calc' = [calc EXCEPT !.h[i].pc = "done"]
    /\ UNCHANGED coordVars

\* Promise.all and fetchNpmPackage resolve; cacheRecord is built
ApiFetchOk(i) ==
    /\ ApiAt(i, "fetch")
    /\ LET q == calc.h[i]
           rec == UpstreamIdentity(q.owner, q.name)
       IN  IF calc.DATA_BUCKET
           THEN calc' = [calc EXCEPT !.h[i].pc = "saveRepo",
                                     !.h[i].rec = << rec >>]
           ELSE calc' = [calc EXCEPT !.h[i].pc = "done",
                                     !.h[i].rec = << rec >>,
                                     !.h[i].response =
                                         << jsonResponse(rec, 200) >>]
    /\ UNCHANGED coordVars

\* a rejection inside the try: catch answers { error: message } with 500
ApiFails(i, pc, message) ==
    /\ ApiAt(i, pc)
    /\ calc' = [calc EXCEPT
                  !.h[i].pc = "done",
                  !.h[i].response =
                      << jsonResponse([error |-> message], 500) >>]
    /\ UNCHANGED coordVars

\* await saveRepoToR2(cacheRecord, ...)
ApiSaveRepo(i) ==
    /\ ApiAt(i, "saveRepo")
    /\ LET rec == calc.h[i].rec[1]
       IN  calc' = [calc EXCEPT !.files = @ \cup { << rec.owner, rec.name >> },
                                !.h[i].pc = "readIndex"]
    /\ UNCHANGED coordVars

\* updateRepoInIndex: const index = await getRepoIndex(env)
getRepoIndex(i, imported) ==
    /\ ApiAt(i, "readIndex")
    /\ IF Len(calc.index) = 1
       THEN \* a newly parsed object, also assigned to repoIndex
            LET at == Len(calc.heap) + 1
            IN  calc' = [calc EXCEPT !.heap = Append(@, calc.index[1]),
                                     !.repoIndex = << at >>,
                                     !.h[i].local = at,
                                     !.h[i].pc = "update"]
       ELSE IF Len(calc.repoIndex) = 1
       THEN calc' = [calc EXCEPT !.h[i].local = calc.repoIndex[1],
                                 !.h[i].pc = "update"]
       ELSE IF imported
       THEN \* import('../data/index.json'): the module's default export
            \* (the object at position 1 of heap)
            calc' = [calc EXCEPT !.repoIndex = << 1 >>,
                                 !.h[i].local = 1,
                                 !.h[i].pc = "update"]
       ELSE \* the object literal of the fallback
            calc' = [calc EXCEPT !.heap = Append(@, {}),
                                 !.h[i].local = Len(calc.heap) + 1,
                                 !.h[i].pc = "update"]
    /\ UNCHANGED coordVars

\* updateRepoInIndex after the await: index.repos[key] = {...} and the body
\* JSON.stringify(index) handed to DATA_BUCKET.put
updateRepoInIndex(i) ==
    /\ ApiAt(i, "update")
    /\ LET rec == calc.h[i].rec[1]
           entries == calc.heap[calc.h[i].local]
                        \cup { << rec.owner, rec.name >> }
       IN  calc' = [calc EXCEPT !.heap[calc.h[i].local] = entries,
                                !.h[i].payload = entries,
                                !.h[i].pc = "put"]
    /\ UNCHANGED coordVars

\* the put of index.json completes; repoIndex = index; the handler answers
saveIndexToR2(i) ==
    /\ ApiAt(i, "put")
    /\ calc' = [calc EXCEPT
          !.index = << calc.h[i].payload >>,
          !.repoIndex = << calc.h[i].local >>,
          !.h[i].pc = "done",
          !.h[i].response = << jsonResponse(calc.h[i].rec[1], 200) >>]
    /\ UNCHANGED coordVars



NextApi ==
    \E i \in Handlers :
        \/ \E owner \in { "", "acme", "Acme", "zed" },
              name \in { "", "lib", "kit" } : ApiRequest(i, owner, name)
        \/ ApiCacheLookup(i)
        \/ ApiCacheLookupRejects(i)
        \/ ApiFetchOk(i)
        \/ ApiFails(i, "fetch", "Failed to fetch repo")
        \/ ApiSaveRepo(i)
        \/ ApiFails(i, "saveRepo", "R2 put failed")
        \/ \E imported \in BOOLEAN : getRepoIndex(i, imported)
        \/ ApiFails(i, "readIndex", "R2 get failed")
        \/ updateRepoInIndex(i)
        \/ saveIndexToR2(i)
        \/ ApiFails(i, "put", "R2 put failed")

SpecApi == InitApi /\ [][NextApi]_vars

ApiDone(i) == calc.op = "api" /\ calc.h[i].pc = "done"

\* C22 (as stated): every request to GET /api/repo ends in exactly one of 200
\* with the record, 400 with {error} when owner or name is missing, 500 with
\* {error} when the fetch fails; no request ends in any other outcome.
C22_ApiOutcomes ==
    \A i \in Handlers :
        ApiDone(i) =>
           /\ Len(calc.h[i].response) = 1
           /\ LET q == calc.h[i]
                  r == q.response[1]
              IN  \/ /\ r.status = 200
                     /\ q.owner # "" /\ q.name # ""
                     /\ DOMAIN r.body = {"owner", "name"}
                  \/ /\ r.status = 400
                     /\ q.owner = "" \/ q.name = ""
                     /\ DOMAIN r.body = {"error"}
                  \/ /\ r.status = 500
                     /\ q.missed
                     /\ DOMAIN r.body = {"error"}

\* C29 (as stated): when two miss handlers for different repositories have
\* both completed their index update, index.json holds an entry for each.
C29_NoIndexUpdateLost ==
    ( /\ calc.op = "api"
      /\ \A i \in Handlers :
            /\ ApiDone(i)
            /\ calc.h[i].missed
            /\ Len(calc.h[i].response) = 1
            /\ calc.h[i].response[1].status = 200
      /\ calc.h[1].rec # calc.h[2].rec
      /\ calc.DATA_BUCKET )
    => /\ Len(calc.index) = 1
       /\ \A i \in Handlers :
             << calc.h[i].rec[1].owner, calc.h[i].rec[1].name >>
                \in calc.index[1]



\* ================================================ fetchRepoData's collectors
\* What upstream does to each collector's request: it answers OK ("ok"),
\* answers with a non-OK status ("http-failure"), or the request itself fails
\* and fetch rejects ("network-failure").  A collector's promise is << >> when
\* it rejects and << value >> when it fulfils.

\* the members of the Promise.all after fetchRepoInfo, in its order
SecondaryCollectors ==
    << "fetchReleases", "checkLlmsTxt", "fetchReadme", "fetchRootContents",
       "fetchRecentCommits", "fetchRecentClosedPRs" >>



\* fetchRepoInfo: throws on !response.ok; await fetch is not guarded
fetchRepoInfo(outcome) ==
    IF outcome = "ok" THEN << "data" >> ELSE << >>

\* fetchReleases, checkLlmsTxt, fetchReadme, fetchRootContents,
\* fetchRecentCommits, fetchRecentClosedPRs: the empty value on !response.ok;
\* await fetch is not guarded
secondaryCollector(outcome) ==
    CASE outcome = "ok" -> << "data" >>
      [] outcome = "http-failure" -> << "default" >>
      [] OTHER -> << >>

\* fetchNpmPackage: null on !packageRes.ok and from its catch
fetchNpmPackage(outcome) ==
    IF outcome = "ok" THEN << "data" >> ELSE << "default" >>

InitCollect ==
    /\ CoordIdle
    /\ calc \in { [op |-> "fetchRepoData", pc |-> "collecting",
                   primary |-> p, secondary |-> s, npm |-> n,
                   values |-> << >>] :
                    p \in {"ok", "http-failure", "network-failure"},
                    s \in [1..Len(SecondaryCollectors) ->
                              {"ok", "http-failure", "network-failure"}],
                    n \in {"ok", "http-failure", "network-failure"} }

\* await Promise.all([...]): rejects as soon as one member rejects
CollectAll ==
    /\ calc.op = "fetchRepoData" /\ calc.pc = "collecting"
    /\ LET repo == fetchRepoInfo(calc.primary)
           rest == [i \in 1..Len(SecondaryCollectors) |->
                       secondaryCollector(calc.secondary[i])]
       IN  IF Len(repo) = 0 \/ \E i \in 1..Len(rest) : Len(rest[i]) = 0
           THEN calc' = [calc EXCEPT !.pc = "rejected"]
           ELSE calc' = [calc EXCEPT
                           !.pc = "npm",
                           !.values = repo \o [i \in 1..Len(rest) |-> rest[i][1]]]
    /\ UNCHANGED coordVars

\* await fetchNpmPackage(npmPackageName); the record is built
CollectNpm ==
    /\ calc.op = "fetchRepoData" /\ calc.pc = "npm"
    /\ calc' = [calc EXCEPT !.pc = "built",
                            !.values = @ \o fetchNpmPackage(calc.npm)]
    /\ UNCHANGED coordVars

\* fetchAndSaveRepo: if (env.DB) await saveRepoToD1(cacheRecord)
CollectSave(snap) ==
    /\ calc.op = "fetchRepoData" /\ calc.pc = "built"
    /\ env.DB
    /\ Commit(BuildRecord("acme", "lib", snap, now), "fetchAndSaveRepo", "")
    /\ calc' = [calc EXCEPT !.pc = "stored"]
    /\ UNCHANGED <<now, env, started, reqs, tasks, lastResponse, lastRefresh>>

NextCollect ==
    \/ CollectAll
    \/ CollectNpm
    \/ \E snap \in Snapshots : CollectSave(snap)

SpecCollect == InitCollect /\ [][NextCollect]_vars

\* C23 (as stated): a network or HTTP failure in a collector other than the
\* primary repository lookup never fails the fetch: whenever the primary
\* lookup is answered OK the fetch does not reject, and the failed collectors
\* contribute their default values to the record.
C23_SecondaryFailuresTolerated ==
    ( /\ calc.op = "fetchRepoData"
      /\ calc.primary = "ok"
      /\ calc.pc # "collecting" )
    => /\ calc.pc # "rejected"
       /\ \A i \in 1..Len(SecondaryCollectors) :
             calc.secondary[i] # "ok" => calc.values[i + 1] = "default"

\* ============================================================ fetchWithRetry
\* scripts/fetch-data.ts.  calc holds the call: its retries argument, the
\* loop counter i, its position, Date.now() in milliseconds, the number of
\* requests issued and whether the call has slept since its last request.
MaxRetries == 3

DefaultRetries == 3

RateLimitStatus == 403

MaxWaitMs == 60000






\* what one fetch(url) resolves with; resetTime is
\* response.headers.get('x-ratelimit-reset'): << >> when absent, else the
\* characters of the header
ResponseChoices ==
    { [status |-> 200, resetTime |-> << >>],
      [status |-> 404, resetTime |-> << >>] }
    \cup { [status |-> RateLimitStatus, resetTime |-> h] :
              h \in { << >>, << "x" >>, << "5" >>, << "1", "2" >>,
                      << "6", "8" >>, << "6", "9" >> } }

\* (parseInt(resetTime) * 1000) - Date.now() + 1000; << >> stands for NaN
waitMsOf(resetTime, clock) ==
    LET n == DigitRun(resetTime, 1)
    IN  IF n = 0 THEN << >>
        ELSE << parseInt(SubSeq(resetTime, 1, n)) * MsPerSecond
                  - clock + MsPerSecond >>

\* status === 403 && resetTime && waitMs > 0 && waitMs < 60000
shouldWaitForReset(response, clock) ==
    /\ response.status = RateLimitStatus
    /\ Len(response.resetTime) > 0
    /\ Len(waitMsOf(response.resetTime, clock)) = 1
    /\ waitMsOf(response.resetTime, clock)[1] > 0
    /\ waitMsOf(response.resetTime, clock)[1] < MaxWaitMs

InitRetry ==
    /\ CoordIdle
    /\ calc \in { [op |-> "fetchWithRetry", retries |-> r, i |-> 0,
                   pc |-> "head", clock |-> 10 * MsPerSecond,
                   requests |-> 0,
                   waited |-> FALSE, sleep |-> 0, why |-> "",
                   result |-> << >>] : r \in 0..MaxRetries }



\* for (...; i < retries; ...) and the throw after the loop
RetryLoopHead ==
    /\ calc.op = "fetchWithRetry" /\ calc.pc = "head"
    /\ IF calc.i < calc.retries
       THEN calc' = [calc EXCEPT !.pc = "fetch"]
       ELSE calc' = [calc EXCEPT !.pc = "threw",
                                 !.result = << [error |-> "Max retries exceeded"] >>]
    /\ UNCHANGED coordVars

\* await fetch(url, { headers }) resolves
RetryFetchResponds(response) ==
    /\ calc.op = "fetchWithRetry" /\ calc.pc = "fetch"
    /\ IF shouldWaitForReset(response, calc.clock)
       THEN calc' = [calc EXCEPT
                       !.pc = "sleeping", !.requests = @ + 1,
                       !.waited = FALSE, !.why = "rate-limit",
                       !.sleep = waitMsOf(response.resetTime, calc.clock)[1]]
       ELSE calc' = [calc EXCEPT
                       !.pc = "returned", !.requests = @ + 1,
                       !.waited = FALSE,
                       !.result = << [response |-> response] >>]
    /\ UNCHANGED coordVars

\* variant: a network failure is retried at once
RetryFetchRejectsWithoutBackoff ==
    /\ calc.op = "fetchWithRetry" /\ calc.pc = "fetch"
    /\ IF calc.i = calc.retries - 1
       THEN calc' = [calc EXCEPT !.pc = "threw", !.requests = @ + 1,
                                 !.waited = FALSE,
                                 !.result = << [error |-> "fetch failed"] >>]
       ELSE calc' = [calc EXCEPT !.pc = "head", !.requests = @ + 1,
                                 !.waited = FALSE, !.why = "network",
                                 !.i = @ + 1]
    /\ UNCHANGED coordVars

\* await fetch(url, { headers }) rejects: the catch
RetryFetchRejects ==
    /\ calc.op = "fetchWithRetry" /\ calc.pc = "fetch"
    /\ IF calc.i = calc.retries - 1
       THEN calc' = [calc EXCEPT !.pc = "threw", !.requests = @ + 1,
                                 !.waited = FALSE,
                                 !.result = << [error |-> "fetch failed"] >>]
       ELSE calc' = [calc EXCEPT !.pc = "sleeping", !.requests = @ + 1,
                                 !.waited = FALSE, !.why = "network",
                                 !.sleep = MsPerSecond * (calc.i + 1)]
    /\ UNCHANGED coordVars

\* the timer of sleep(ms) fires; continue / end of the loop body: i++
RetrySleepEnds ==
    /\ calc.op = "fetchWithRetry" /\ calc.pc = "sleeping"
    /\ calc' = [calc EXCEPT !.pc = "head", !.clock = @ + calc.sleep,
                            !.waited = TRUE, !.i = @ + 1]
    /\ UNCHANGED coordVars

NextRetry ==
    \/ RetryLoopHead
    \/ \E response \in ResponseChoices : RetryFetchResponds(response)
    \/ RetryFetchRejects
    \/ RetrySleepEnds

\* every fetch settles and every timer fires
SpecRetry == InitRetry /\ [][NextRetry]_vars /\ WF_vars(NextRetry)

RetryEnded == calc.op = "fetchWithRetry" /\ calc.pc \in {"returned", "threw"}

\* C24: a call of fetchWithRetry issues at most `retries` requests, has slept
\* since its last request whenever it issues another one, and ends by
\* returning a response or throwing.
C24_BoundedRetries ==
    /\ [](calc.op = "fetchWithRetry" =>
            /\ calc.requests <= calc.retries
            /\ (calc.pc = "fetch" /\ calc.requests > 0) =>
                  calc.waited /\ calc.why \in {"rate-limit", "network"})
    /\ <>RetryEnded

C24_Witness ==
    /\ RetryEnded
    /\ calc.retries = DefaultRetries
    /\ calc.requests = DefaultRetries
    /\ calc.pc = "threw"
    /\ calc.why = "rate-limit"

\* ============================================================= fetchReleases
\* lib/github.ts.  calc holds the repository's releases as upstream lists
\* them (count entries, newest first; those at the positions in majors are
\* tagged v2.0.0, the others v2.1.0; those in prereleases are marked
\* prerelease), the page to request, the releases collected and the call's
\* position.
RELEASES_PER_PAGE == 100

MaxReleasePages == 2




Repositories ==
    LET half == RELEASES_PER_PAGE \div 2
        counts == { 0, 1, RELEASES_PER_PAGE, RELEASES_PER_PAGE + 1,
                    MaxReleasePages * RELEASES_PER_PAGE,
                    MaxReleasePages * RELEASES_PER_PAGE + half }
        positions == { {}, {1}, {RELEASES_PER_PAGE}, {RELEASES_PER_PAGE + 1},
                       {RELEASES_PER_PAGE + half} }
    IN  { r \in [count : counts, majors : positions,
                 prereleases : positions] :
            /\ r.majors \subseteq 1..r.count
            /\ r.prereleases \in { {}, r.majors } }

\* the release upstream lists at position k
ReleaseAt(repo, k) ==
    [tagName |-> IF k \in repo.majors THEN Tag_v2_0_0 ELSE Tag_v2_1_0,
     isPrerelease |-> k \in repo.prereleases]

\* the array upstream answers for ?per_page=100&page=<page>
PageOf(repo, page) ==
    LET first == (page - 1) * RELEASES_PER_PAGE
        size == Max2(0, Min2(RELEASES_PER_PAGE, repo.count - first))
    IN  [i \in 1..size |-> ReleaseAt(repo, first + i)]

isStableMajorRelease(release) ==
    IF release.isPrerelease THEN FALSE
    ELSE LET match == parseSemverTag(release.tagName)
         IN  Len(match) = 1 /\ match[1].minor = 0 /\ match[1].patch = 0

InitPaging ==
    /\ CoordIdle
    /\ calc \in { [op |-> "fetchReleases", repo |-> r, page |-> 1,
                   releases |-> << >>, requests |-> 0, pc |-> "request",
                   last |-> "none"] : r \in Repositories }




\* the response is not OK or its JSON is not an array: the releases
\* collected are returned; await fetch rejects: nothing catches it
PageFails(why) ==
    /\ calc.op = "fetchReleases" /\ calc.pc = "request"
    /\ calc' = [calc EXCEPT
                  !.pc = IF why = "rejected" THEN "threw" ELSE "returned",
                  !.requests = @ + 1,
                  !.last = why]
    /\ UNCHANGED coordVars

\* variant: paging goes on past a stable major release
PageArrivesIgnoringMajor ==
    /\ calc.op = "fetchReleases" /\ calc.pc = "request"
    /\ LET data == PageOf(calc.repo, calc.page)
       IN  IF Len(data) = 0
           THEN calc' = [calc EXCEPT !.pc = "returned", !.requests = @ + 1,
                                     !.last = "empty"]
           ELSE IF Len(data) < RELEASES_PER_PAGE
           THEN calc' = [calc EXCEPT !.pc = "returned", !.requests = @ + 1,
                                     !.releases = @ \o data,
                                     !.last = "short"]
           ELSE calc' = [calc EXCEPT !.page = @ + 1, !.requests = @ + 1,
                                     !.releases = @ \o data,
                                     !.last = "full"]
    /\ UNCHANGED coordVars

\* the response is OK and carries the page's array
PageArrives ==
    /\ calc.op = "fetchReleases" /\ calc.pc = "request"
    /\ LET data == PageOf(calc.repo, calc.page)
       IN  IF Len(data) = 0
           THEN calc' = [calc EXCEPT !.pc = "returned", !.requests = @ + 1,
                                     !.last = "empty"]
           ELSE IF \E i \in 1..Len(data) : isStableMajorRelease(data[i])
           THEN calc' = [calc EXCEPT !.pc = "returned", !.requests = @ + 1,
                                     !.releases = @ \o data,
                                     !.last = "major"]
           ELSE IF Len(data) < RELEASES_PER_PAGE
           THEN calc' = [calc EXCEPT !.pc = "returned", !.requests = @ + 1,
                                     !.releases = @ \o data,
                                     !.last = "short"]
           ELSE calc' = [calc EXCEPT !.page = @ + 1, !.requests = @ + 1,
                                     !.releases = @ \o data,
                                     !.last = "full"]
    /\ UNCHANGED coordVars

NextPaging ==
    \/ \E why \in {"not-ok", "not-array", "rejected"} : PageFails(why)
    \/ PageArrives

\* every request is answered or fails
SpecPaging == InitPaging /\ [][NextPaging]_vars /\ WF_vars(NextPaging)

PageIsFull(repo, page) == Len(PageOf(repo, page)) = RELEASES_PER_PAGE

PageHasStableMajor(repo, page) ==
    \E k \in ((page - 1) * RELEASES_PER_PAGE + 1)..Min2(repo.count,
                                                 page * RELEASES_PER_PAGE) :
        k \in repo.majors /\ k \notin repo.prereleases

AllReleases(repo) == [k \in 1..repo.count |-> ReleaseAt(repo, k)]

\* C30: fetchReleases ends for every repository with finitely many releases;
\* it asks for a further page only when the page before was full and held no
\* stable major release, and what it returns is the pages collected so far:
\* after a non-OK (or non-array) answer those of the earlier pages, after an
\* empty, short or stable-major page those up to and including that page.
C30_PagingTerminates ==
    /\ [](calc.op = "fetchReleases" =>
            /\ (calc.pc = "request" /\ calc.page > 1) =>
                  /\ PageIsFull(calc.repo, calc.page - 1)
                  /\ ~PageHasStableMajor(calc.repo, calc.page - 1)
            /\ calc.pc = "returned" =>
                  /\ calc.requests = calc.page
                  /\ \/ /\ calc.last \in {"not-ok", "not-array"}
                        /\ Len(calc.releases)
                             = (calc.page - 1) * RELEASES_PER_PAGE
                     \/ /\ \/ Len(PageOf(calc.repo, calc.page)) = 0
                           \/ ~PageIsFull(calc.repo, calc.page)
                           \/ PageHasStableMajor(calc.repo, calc.page)
                        /\ Len(calc.releases)
                             = Min2(calc.repo.count,
                                    calc.page * RELEASES_PER_PAGE)
                  /\ calc.releases
                       = SubSeq(AllReleases(calc.repo), 1, Len(calc.releases)))
    /\ <>(calc.op = "fetchReleases" /\ calc.pc \in {"returned", "threw"})

C30_Witness ==
    /\ calc.op = "fetchReleases"
    /\ calc.pc = "returned"
    /\ calc.page = 2
    /\ calc.last = "major"
    /\ Len(calc.releases) = 2 * RELEASES_PER_PAGE
====
